---- MODULE Spec2Model ----
(***************************************************************************)
(* The speak daemon's playback pipeline (lib/speakd): the PlaybackQueue    *)
(* FIFO with its single worker coroutine, the AudioOutputStream it writes  *)
(* to, and the command handlers (enqueue, skip, clear, replay, set_device) *)
(* that run on the same asyncio event loop.                                *)
(*                                                                         *)
(* Scheduling: everything is one cooperative event loop.  A coroutine runs *)
(* without interruption from one suspension point (an await that really    *)
(* suspends) to the next.  The worker's position is wpc; the labels in     *)
(* AwaitLabels are its suspension points, every other label is a stretch   *)
(* of synchronous code during which no handler can run.                    *)
(***************************************************************************)
EXTENDS Integers, Sequences, FiniteSets, TLC

\* ------------------------------------------------------------- bounds
\* ids handed out by enqueue/replay (caps _id_counter)
MaxId == 2
\* skip commands that find an item current (caps total_skipped)
MaxSkips == 1
\* command handlers suspended inside AudioOutputStream.kill at one time
MaxInFlight == 1
\* the count of chunks written after a skip is kept up to this value
AfterSkipCap == 2
\* failures the environment injects (device errors, synthesis errors)
MaxFaults == 1
\* frames encoded for broadcast (caps nframes)
MaxFrames == 66
\* frames one subscriber's sink takes
MaxSent == 2
\* a client subscribes while no more than this many requests were enqueued
MaxJoinId == 1
\* ... and no more than this many frames were broadcast
MaxJoinFrames == 1
\* requests enqueued once a client has subscribed
MaxLiveId == 1
\* standalone metadata events, the frames broadcast once a shutdown has
\* begun, and the failures of a sink are among the first frames only (a
\* shutdown begins while clients may still join)
MaxEvents == 2

\* the (caller, session) keys that ask the voice pool for a voice
MaxKeys == 28
\* the keys that ask more than once
RepeatKeys == 2
\* lock, unlock, set_weight and release_voice calls made on the voice pool
MaxPoolOps == 2
\* ... all of them before the key with this number has asked
PoolOpsWindow == 3

\* calls made on the audio cache and the synthesis engine
MaxCacheOps == 4
\* the clock of the cache runs up to this many ticks
MaxTime == 2

\* publications of the state document
MaxPublications == 3
\* times a reader opens the state file
MaxReads == 2
\* file operations of publish_state that fail with OSError
MaxIoErrors == 1

\* client connections over the life of the daemon
MaxConns == 2

\* runs of loud or quiet frames in an audio, and words in it
MaxRuns == 5

MaxWords == 3

\* the monotonic clock advances in steps of ClockStep seconds up to MaxClock
ClockStep == 300

MaxClock == 300

\* ------------------------------------------------------------- program constants
SAMPLE_RATE == 24000

WRITE_CHUNK_BYTES == (SAMPLE_RATE * 2) \div 4

\* tones.py: sample counts are int(SAMPLE_RATE * seconds); PCM is int16
Samples(ms) == (SAMPLE_RATE * ms) \div 1000

SEPARATOR_TONE ==
    2 * (Samples(50) + Samples(150) + Samples(30) + Samples(150) + Samples(80))

CALLER_GAP == 2 * Samples(1000)

\* index into TONE_SETS: int(md5(caller).hexdigest()[:8], 16) % 9
ToneIndex(caller) ==
    CASE caller = "alpha" -> 6
      [] caller = "bravo" -> 2
      [] OTHER -> 0

\* TONE_SETS[i] has 1 beep for i < 3, 2 beeps for i < 6, 3 beeps otherwise
Beeps(caller) == (ToneIndex(caller) \div 3) + 1

BeepMs(n) == CASE n = 1 -> 160 [] n = 2 -> 120 [] OTHER -> 80

get_caller_tone(caller) ==
    LET n == Beeps(caller)
    IN  2 * (Samples(40) + n * Samples(BeepMs(n)) + (n - 1) * Samples(40) + Samples(60))

\* ------------------------------------------------------------- inputs
Callers == {"", "alpha", "bravo"}

\* request texts, as character sequences
TextNone == << >>
TextTwo == <<"a", ",", " ", "b", ".">>
Texts == {TextNone, TextTwo}

\* byte lengths of the PCM the TTS backend may produce for one clause
PcmSizes == {20000}

\* the requests clients send: (caller, text)
RequestInputs == {<<"", TextTwo>>, <<"alpha", TextTwo>>, <<"bravo", TextNone>>}

\* ------------------------------------------------------------- text.py
IsSpace(c) == c = " "

IsPunct(c) == c \in {".", "!", "?", ",", ";", ":", "-"}

RECURSIVE Strip(_)
Strip(s) ==
    IF s = << >> THEN s
    ELSE IF IsSpace(Head(s)) THEN Strip(Tail(s))
    ELSE IF IsSpace(s[Len(s)]) THEN Strip(SubSeq(s, 1, Len(s) - 1))
    ELSE s

\* re.split(r'(?<=[.!?,;:-])\s+', s): parts of s, cut at each whitespace run
\* that follows a punctuation character.  cur is the part being collected.
RECURSIVE SplitAt(_, _, _)
SplitAt(s, i, cur) ==
    IF i > Len(s) THEN <<cur>>
    ELSE IF IsSpace(s[i]) /\ i > 1 /\ IsPunct(s[i - 1])
         THEN LET RECURSIVE SkipWs(_)
                  SkipWs(j) == IF j <= Len(s) /\ IsSpace(s[j]) THEN SkipWs(j + 1) ELSE j
              IN  <<cur>> \o SplitAt(s, SkipWs(i), << >>)
         ELSE SplitAt(s, i + 1, Append(cur, s[i]))

split_clauses(text) ==
    LET parts == SplitAt(Strip(text), 1, << >>)
    IN  SelectSeq([k \in 1..Len(parts) |-> Strip(parts[k])], LAMBDA p : p # << >>)

\* ------------------------------------------------------------- requests
NoRequest == [id |-> 0, caller |-> "", text |-> TextNone, is_replay |-> FALSE]

NoReply == [op |-> "none", ok |-> TRUE, n |-> 0]

Min(a, b) == IF a < b THEN a ELSE b

Last(s) == s[Len(s)]

VARIABLES
    \* PlaybackQueue
    queue, current, id_counter, skip_flag, last_request, items_played,
    last_caller, total_enqueued, total_completed, total_skipped,
    \* VoicePool: the (caller, session) keys that hold a claim
    claims,
    \* AudioOutputStream: the _stream handle: "none", or a stream object that
    \* is "active" or has an abort ("aborting") or stop ("stopping") submitted
    stream,
    \* protocol.publish_state: the state document last written
    published,
    \* the response a command handler is about to send
    reply,
    \* handlers suspended in AudioOutputStream.kill
    skip_waiting, dev_waiting,
    \* the worker coroutine
    wpc, wseg, wlen, woff, wretry, wdist, wclause, is_new_claim, prefetch,
    \* observation of the device: the segments written for the current item,
    \* the chunks written since its skip, and the id of the item the last
    \* chunk written belonged to
    itemlog, afterSkip, lastdev,
    \* SpeechHistory: the ids of the requests recorded, in insertion order
    history,
    \* the ids of the items whose processing ended in the except clause
    failed,
    \* write_pcm: the chunks <<offset, length>> the device has taken in the
    \* call in progress, and the submissions of the chunk in hand
    chunks, wtries,
    \* failures injected so far
    faults,
    \* the chunks <<item, segment, clause, offset, length>> the device has
    \* taken for the current item
    devlog,
    \* SubscriberManager._subscribers: the writers subscribed, in insertion
    \* order, and the SubscriberInfo made for each writer
    subscribers, infos,
    \* the frames encoded for broadcast so far
    nframes,
    \* SubscriberManager.shutdown: its position and the rest of its snapshot
    shpc, shlist,
    \* VoicePool: _locks as (caller, voice, gain) triples, _weights,
    \* _claims by key number (gains in tenths), _next_idx
    locks, weights, pool_claims, next_idx,
    \* what the last call on the pool returned, the voice each key got from
    \* its first get_voice, and the lock, unlock, set_weight and
    \* release_voice calls made so far
    pool_reply, first_voice, pool_log,
    \* AudioCache: the PCM files and the .meta files of the clause and the
    \* word directory by fingerprint, and the clock
    clause_pcm, clause_meta, word_pcm, word_meta, now,
    \* what the last call on the cache or the engine returned, the calls of
    \* the TTS backend and the calls made so far
    cache_reply, tts_calls, cache_ops,
    \* the last put_clause under each fingerprint and with each key
    last_put, put_by_key,
    \* the clauses for which a background upgrade is scheduled
    upgrades,
    \* the threads at work in the cache: position and the metadata read
    thr,
    \* the state file: the content of each inode, the inode each path names,
    \* publish_state's position, and a reader of the state file
    fs_inodes, fs_paths, pub, reader, io_errors,
    \* SpeakDaemon: the connections handle_client serves, its counters, the
    \* monotonic clock, and whether the idle watchdog has ended the process
    conn, active_connections, last_activity, mono, exited,
    \* detect_word_boundaries: the audio as the energy of each whole 5 ms frame
    \* and the samples after the last whole frame, the word count, the result
    energy, tail, n_words, segments

qvars == <<queue, current, id_counter, skip_flag, last_request, items_played,
           last_caller, total_enqueued, total_completed, total_skipped>>

wvars == <<wpc, wseg, wlen, woff, wretry, wdist, wclause, is_new_claim, prefetch>>

obsvars == <<itemlog, afterSkip, lastdev, devlog>>

\* what a _publish writes: the state file and the subscribers' queues
pubvars == <<published, infos, nframes>>

\* SubscriberManager._subscribers and a shutdown() in progress
subvars == <<subscribers, shpc, shlist>>

extvars == <<history, failed, chunks, wtries, faults>>

\* the connections and the idle watchdog
srvvars == <<conn, active_connections, last_activity, mono, exited>>

\* word boundary detection
audiovars == <<energy, tail, n_words, segments>>

\* the daemon's queue, worker, device, subscribers and connections
corevars == <<qvars, claims, stream, pubvars, reply, skip_waiting,
              dev_waiting, wvars, obsvars, extvars, subvars, srvvars, audiovars>>

poolvars == <<locks, weights, pool_claims, next_idx, pool_reply, first_voice,
              pool_log>>

cachevars == <<clause_pcm, clause_meta, word_pcm, word_meta, now, cache_reply,
               tts_calls, cache_ops, last_put, put_by_key, upgrades, thr>>

\* the components checked on their own
filevars == <<fs_inodes, fs_paths, pub, reader, io_errors>>

\* what the playback queue and the subscriber manager leave alone
compvars == <<poolvars, cachevars, filevars, srvvars, audiovars>>

vars == <<corevars, compvars>>

\* the worker's suspension points
AwaitLabels == {"get", "open", "write", "reopen", "ann_synth", "ann_end",
                "prefetch_wait", "clause_synth", "clause_end", "kill"}

\* a handler may run: the worker is suspended and no response is half sent
Yielded == wpc \in AwaitLabels /\ reply = NoReply

\* the worker may run
WorkerTurn == reply = NoReply

\* playback.py _publish: the document written to the state file
StateDoc(event, cur, q) ==
    [event |-> event, playing |-> cur.id, pending |-> Len(q)]

\* ------------------------------------------------------------- SubscriberManager
\* asyncio.Queue(maxsize=64)
QUEUE_MAXSIZE == 64

\* the subscribe commands clients send: (writer, include_metadata)
SubscribeInputs == {<<1, TRUE>>, <<2, FALSE>>}

SubIds == {in[1] : in \in SubscribeInputs}

\* a SubscriberInfo: spc is the sender task's position ("none" before the
\* subscription, "get" in queue.get, "drain" in writer.drain, "done"), sink is
\* what was written to the writer, offered counts the frames broadcast to it,
\* heard lists them, held counts the frames the sender took and did not write
NoInfo ==
    [include_metadata |-> FALSE, queue |-> << >>, dropped_frames |-> 0,
     spc |-> "none", disconnect |-> FALSE, sink |-> << >>, offered |-> 0,
     joined |-> 0, heard |-> << >>, held |-> 0]

\* a broadcast frame: uint32 frame_length | uint8 frame_type | payload
encode_broadcast_frame(type, payload) == [type |-> type, payload |-> payload]

\* the zero-length frame
terminator == [type |-> "end", payload |-> << >>]

FrameAcceptedWhenDrained(info) == info.queue = << >>

\* _enqueue_frame returns without suspending and without raising, whatever
\* the state of the queue
FrameAccepted(info) == TRUE

enqueue_frame_drop_newest(info, frame) ==
    IF Len(info.queue) < QUEUE_MAXSIZE
    THEN [info EXCEPT !.queue = Append(@, frame), !.offered = @ + 1,
                      !.heard = Append(@, frame)]
    ELSE [info EXCEPT !.dropped_frames = @ + 1, !.offered = @ + 1,
                      !.heard = Append(@, frame)]

\* _enqueue_frame: put_nowait; on QueueFull drop the oldest frame and count
\* it, then put_nowait again, giving up on a second QueueFull
enqueue_frame(info, frame) ==
    IF Len(info.queue) < QUEUE_MAXSIZE
    THEN [info EXCEPT !.queue = Append(@, frame), !.offered = @ + 1,
                      !.heard = Append(@, frame)]
    ELSE LET q == IF info.queue # << >> THEN Tail(info.queue) ELSE info.queue
             d == IF info.queue # << >> THEN info.dropped_frames + 1
                  ELSE info.dropped_frames
         IN  [info EXCEPT !.queue = IF Len(q) < QUEUE_MAXSIZE
                                    THEN Append(q, frame) ELSE q,
                          !.dropped_frames = d,
                          !.offered = @ + 1,
                          !.heard = Append(@, frame)]

Subscribed(s) == \E k \in 1..Len(subscribers) : subscribers[k] = s

\* the infos after the frame went to every subscriber (metadata: to those
\* that opted in)
Fanout(frame, metadata) ==
    [s \in SubIds |->
        IF Subscribed(s) /\ (~metadata \/ infos[s].include_metadata)
        THEN enqueue_frame(infos[s], frame)
        ELSE infos[s]]

\* the broadcast is part of the caller's step; with no subscriber nothing is
\* encoded
Broadcast(frame, metadata) ==
    /\ \A s \in SubIds : Subscribed(s) => FrameAccepted(infos[s])
    /\ IF subscribers = << >>
       THEN UNCHANGED <<infos, nframes>>
       ELSE /\ infos' = Fanout(frame, metadata)
            /\ nframes' = nframes + 1

broadcast_audio_unhooked(pcm) == UNCHANGED <<infos, nframes>>

broadcast_audio(pcm) == Broadcast(encode_broadcast_frame("audio", pcm), FALSE)

\* the payload is the JSON of the state document
broadcast_metadata(event) ==
    Broadcast(encode_broadcast_frame("metadata",
                  <<event.playing, event.event, event.pending>>), TRUE)

\* _publish: publish_state, then the broadcast to the subscribers
Publish(state) ==
    /\ published' = state
    /\ broadcast_metadata(state)

\* ------------------------------------------------------------- VoicePool
ENGLISH_VOICES ==
    << "af_alloy", "af_aoede", "af_bella", "af_heart", "af_jessica", "af_kore",
       "af_nicole", "af_nova", "af_river", "af_sarah", "af_sky",
       "am_adam", "am_echo", "am_eric", "am_fenrir", "am_liam",
       "am_michael", "am_onyx", "am_puck",
       "bf_alice", "bf_emma", "bf_isabella", "bf_lily",
       "bm_daniel", "bm_fable", "bm_george", "bm_lewis" >>

Voices == {ENGLISH_VOICES[k] : k \in 1..Len(ENGLISH_VOICES)}

\* the key with number n: (caller, session)
KeyCaller(n) == IF n % 2 = 1 THEN "alpha" ELSE "bravo"

PoolKeys == 1..MaxKeys

\* the callers the lock and unlock commands name
PoolCallers == {"alpha", "bravo"}

\* the lock commands: (caller, voice, gain in tenths)
LockInputs == {<<"alpha", "af_alloy", 5>>, <<"bravo", "af_bella", 10>>}

\* the set_weight commands: (voice, weight)
WeightInputs == {<<"af_aoede", -1>>, <<"af_alloy", 2>>}

\* the voices release_voice is called with
ReleaseInputs == {"af_alloy", "af_aoede"}

\* locks on the voices from the k-th on, each held by a caller named as the
\* voice, as a voices.json written by earlier lock commands holds them
LockedFrom(k) ==
    {<<ENGLISH_VOICES[j], ENGLISH_VOICES[j], 10>> : j \in k..Len(ENGLISH_VOICES)}

\* _load_config: no file, every voice locked, every voice but the first
PoolConfigs == {{}, LockedFrom(1), LockedFrom(2)}

\* a key without a claim
NoClaim == <<"", 0>>

NoPoolReply == [op |-> "none", key |-> 0, voice |-> "", gain |-> 0, new |-> FALSE]

ClaimedNever(n) == FALSE

\* key in self._claims
Claimed(n) == pool_claims[n] # NoClaim

Locked(caller) == \E l \in locks : l[1] = caller

LockOf(caller) == CHOOSE l \in locks : l[1] = caller

\* {v for v, _ in self._locks.values()}
locked_voices == {l[2] : l \in locks}

\* {v for v, _ in self._claims.values()}
claimed_voices == {pool_claims[n][1] : n \in {m \in PoolKeys : Claimed(m)}}

\* [v for v in ENGLISH_VOICES if v not in excluded]
NotIn(excluded) == SelectSeq(ENGLISH_VOICES, LAMBDA v : v \notin excluded)

AvailableIgnoringClaims == NotIn(locked_voices)

\* the candidates: the voices neither locked nor claimed, or, when there is
\* none, the voices not locked
Available ==
    IF NotIn(locked_voices \cup claimed_voices) # << >>
    THEN NotIn(locked_voices \cup claimed_voices)
    ELSE NotIn(locked_voices)

\* available.sort(key=weight): ascending, equal weights keep their order
RECURSIVE SortByWeight(_)
SortByWeight(seq) ==
    IF seq = << >>
    THEN << >>
    ELSE LET ws == {weights[seq[k]] : k \in 1..Len(seq)}
             least == CHOOSE w \in ws : \A x \in ws : w <= x
         IN  SelectSeq(seq, LAMBDA v : weights[v] = least)
               \o SortByWeight(SelectSeq(seq, LAMBDA v : weights[v] # least))

PoolResult(c, i, r) == [claims |-> c, idx |-> i, reply |-> r]

\* get_voice(caller, session, default_voice) for the key with number n: the
\* claims and counter it leaves and what it returns; the modulo by the length
\* of an empty candidate list raises ZeroDivisionError
get_voice(n) ==
    IF Claimed(n)
    THEN PoolResult(pool_claims, next_idx,
                    [op |-> "get_voice", key |-> n, voice |-> pool_claims[n][1],
                     gain |-> pool_claims[n][2], new |-> FALSE])
    ELSE IF Locked(KeyCaller(n))
    THEN LET l == LockOf(KeyCaller(n))
         IN  PoolResult([pool_claims EXCEPT ![n] = <<l[2], l[3]>>], next_idx,
                        [op |-> "get_voice", key |-> n, voice |-> l[2],
                         gain |-> l[3], new |-> FALSE])
    ELSE IF Available = << >>
    THEN PoolResult(pool_claims, next_idx,
                    [op |-> "ZeroDivisionError", key |-> n, voice |-> "",
                     gain |-> 0, new |-> FALSE])
    ELSE LET available == SortByWeight(Available)
             voice == available[(next_idx % Len(available)) + 1]
         IN  PoolResult([pool_claims EXCEPT ![n] = <<voice, 10>>], next_idx + 1,
                        [op |-> "get_voice", key |-> n, voice |-> voice,
                         gain |-> 10, new |-> TRUE])

\* release_voice(voice): the claims without those that use the voice
release_voice(voice) ==
    [n \in PoolKeys |-> IF pool_claims[n][1] = voice THEN NoClaim ELSE pool_claims[n]]

\* the pool after __init__ with the locks of the configuration file
PoolInit(config) ==
    /\ locks = config
    /\ weights = [v \in Voices |-> 0]
    /\ pool_claims = [n \in PoolKeys |-> NoClaim]
    /\ next_idx = 0
    /\ pool_reply = NoPoolReply
    /\ first_voice = [n \in PoolKeys |-> ""]
    /\ pool_log = << >>

\* a get_voice call; the keys come in the order of their numbers, and the
\* first RepeatKeys of them come again
GetVoice ==
    /\ \E n \in PoolKeys :
         /\ IF n <= RepeatKeys THEN TRUE ELSE first_voice[n] = ""
         /\ IF n = 1 THEN TRUE ELSE first_voice[n - 1] # ""
         /\ LET result == get_voice(n)
            IN  /\ pool_claims' = result.claims
                /\ next_idx' = result.idx
                /\ pool_reply' = result.reply
                /\ first_voice' = IF first_voice[n] = ""
                                  THEN [first_voice EXCEPT ![n] = result.reply.voice]
                                  ELSE first_voice
    /\ UNCHANGED <<corevars, cachevars, filevars, locks, weights, pool_log>>

\* the lock, unlock, set_weight and release_voice calls are few and made
\* while the first keys ask
PoolOpAllowed == Len(pool_log) < MaxPoolOps /\ first_voice[PoolOpsWindow] = ""

\* lock(caller, voice, gain)
Lock ==
    /\ PoolOpAllowed
    /\ \E in \in LockInputs :
         /\ locks' = {l \in locks : l[1] # in[1]} \cup {in}
         /\ pool_reply' = [NoPoolReply EXCEPT !.op = "lock", !.voice = in[2]]
    /\ pool_log' = Append(pool_log, "lock")
    /\ UNCHANGED <<corevars, cachevars, filevars, weights, pool_claims, next_idx, first_voice>>

\* unlock(caller): returns whether the caller was locked
Unlock ==
    /\ PoolOpAllowed
    /\ \E caller \in PoolCallers :
         /\ locks' = {l \in locks : l[1] # caller}
         /\ pool_reply' = [NoPoolReply EXCEPT !.op = "unlock", !.new = Locked(caller)]
    /\ pool_log' = Append(pool_log, "unlock")
    /\ UNCHANGED <<corevars, cachevars, filevars, weights, pool_claims, next_idx, first_voice>>

\* set_weight(voice, weight)
SetWeight ==
    /\ PoolOpAllowed
    /\ \E in \in WeightInputs :
         /\ weights' = [weights EXCEPT ![in[1]] = in[2]]
         /\ pool_reply' = [NoPoolReply EXCEPT !.op = "set_weight", !.voice = in[1]]
    /\ pool_log' = Append(pool_log, "set_weight")
    /\ UNCHANGED <<corevars, cachevars, filevars, locks, pool_claims, next_idx, first_voice>>

\* the voice_release command
ReleaseVoice ==
    /\ PoolOpAllowed
    /\ \E voice \in ReleaseInputs :
         /\ pool_claims' = release_voice(voice)
         /\ pool_reply' = [NoPoolReply EXCEPT !.op = "release_voice", !.voice = voice]
    /\ pool_log' = Append(pool_log, "release_voice")
    /\ UNCHANGED <<corevars, cachevars, filevars, locks, weights, next_idx, first_voice>>

\* ------------------------------------------------------------- AudioCache
\* ttl_days * 86400, in ticks of the clock
TTL == 1

\* the requests: text (its words), voice, speed in thousandths
ClauseKeys ==
    << [text |-> <<"hi">>, voice |-> "af_heart", speed |-> 1000],
       [text |-> <<"hi">>, voice |-> "af_heart", speed |-> 1004],
       [text |-> <<"hi", "you">>, voice |-> "af_heart", speed |-> 1000],
       [text |-> <<"you", "hi">>, voice |-> "af_heart", speed |-> 1000] >>

KeyIds == 1..Len(ClauseKeys)

\* the PCM a caller hands to put_clause
PutInputs == {<<7>>, <<8>>}

\* f"{speed:.2f}": the speed in hundredths, rounded
Format2(speed) == (speed + 5) \div 10

\* sha256(raw).hexdigest()[:24]; distinct strings are taken to give
\* distinct digests
Hash(raw) == <<"sha256", raw>>

\* the fingerprint of f"{text}|{voice}|{speed:.2f}"
Fingerprint(text, voice, speed) == Hash(<<text, "|", voice, "|", Format2(speed)>>)

ClauseFp(k) == Fingerprint(ClauseKeys[k].text, ClauseKeys[k].voice, ClauseKeys[k].speed)

\* kokoro.tokenizer.phonemize(word)
Phonemize(word) == <<"ph", word>>

\* phonemize_words: the phonemes of each word of the text
phonemize_words(k) ==
    [i \in 1..Len(ClauseKeys[k].text) |-> Phonemize(ClauseKeys[k].text[i])]

WordFp(k, i) == Fingerprint(phonemize_words(k)[i], ClauseKeys[k].voice, ClauseKeys[k].speed)

ClauseFps == {ClauseFp(k) : k \in KeyIds}

WordFps == UNION {{WordFp(k, i) : i \in 1..Len(ClauseKeys[k].text)} : k \in KeyIds}

\* a path without a file
NoFile == [bytes |-> << >>, mtime |-> -1]

NoMeta == [hits |-> -1, created_at |-> -1, last_hit |-> -1]

NoCacheReply == [op |-> "none", key |-> 0, hit |-> FALSE, pcm |-> << >>,
                 needs_upgrade |-> FALSE, removed |-> 0]

NoPut == [pcm |-> << >>, time |-> -1]

ExpiredAtTTL(file) == now - file.mtime >= TTL

\* time.time() - stat().st_mtime > self.ttl_secs
Expired(file) == now - file.mtime > TTL

Dirs(p, m) == [pcm |-> p, meta |-> m]

\* _bump_hits: without a metadata file nothing is written
bump_hits(meta) ==
    IF meta = NoMeta THEN meta
    ELSE [meta EXCEPT !.hits = @ + 1, !.last_hit = now]

\* get_clause / get_word on a directory: the directory it leaves and what it
\* returns (hit and bytes)
cache_get(dir, fp) ==
    IF dir.pcm[fp] = NoFile
    THEN [dir |-> dir, hit |-> FALSE, pcm |-> << >>]
    ELSE IF Expired(dir.pcm[fp])
    THEN [dir |-> Dirs([dir.pcm EXCEPT ![fp] = NoFile],
                       [dir.meta EXCEPT ![fp] = NoMeta]),
          hit |-> FALSE, pcm |-> << >>]
    ELSE [dir |-> Dirs(dir.pcm, [dir.meta EXCEPT ![fp] = bump_hits(@)]),
          hit |-> TRUE, pcm |-> dir.pcm[fp].bytes]

\* put_clause / put_word on a directory: the PCM file is written, then the
\* metadata with the hits and created_at of the metadata there was
cache_put(dir, fp, pcm) ==
    Dirs([dir.pcm EXCEPT ![fp] = [bytes |-> pcm, mtime |-> now]],
         [dir.meta EXCEPT ![fp] =
             IF @ = NoMeta
             THEN [hits |-> 0, created_at |-> now, last_hit |-> -1]
             ELSE [hits |-> @.hits, created_at |-> @.created_at, last_hit |-> -1]])

\* evict_expired on a directory: every expired PCM file goes with its
\* metadata; metadata files are not looked at on their own
cache_evict(dir) ==
    Dirs([fp \in DOMAIN dir.pcm |->
            IF dir.pcm[fp] # NoFile /\ Expired(dir.pcm[fp]) THEN NoFile ELSE dir.pcm[fp]],
         [fp \in DOMAIN dir.meta |->
            IF dir.pcm[fp] # NoFile /\ Expired(dir.pcm[fp]) THEN NoMeta ELSE dir.meta[fp]])

Evicted(dir) ==
    Cardinality({fp \in DOMAIN dir.pcm : dir.pcm[fp] # NoFile /\ Expired(dir.pcm[fp])})

ClauseDir == Dirs(clause_pcm, clause_meta)

WordDir == Dirs(word_pcm, word_meta)

\* the PCM of kokoro._create_audio for a request
Tts(k) == <<10 * k>>

\* the PCM of the i-th word cut out of the audio of request k (the whole
\* audio for a one-word text)
WordPcm(k, i) == IF Len(ClauseKeys[k].text) = 1 THEN Tts(k) ELSE <<10 * k + i>>

\* assemble_word_audio: one word as it is; more words with a fade-out on
\* each but the last, a fade-in on each but the first and silence between
RECURSIVE JoinWords(_, _)
JoinWords(pcms, i) ==
    IF i > Len(pcms) THEN << >>
    ELSE [j \in 1..Len(pcms[i]) |->
             pcms[i][j] + (IF i < Len(pcms) THEN 1000 ELSE 0)
                        + (IF i > 1 THEN 2000 ELSE 0)]
         \o (IF i < Len(pcms) THEN <<0>> ELSE << >>)
         \o JoinWords(pcms, i + 1)

assemble_word_audio(pcms) == IF Len(pcms) = 1 THEN pcms[1] ELSE JoinWords(pcms, 1)

\* assemble_from_words: get_word for each word in turn, giving up at the
\* first miss: the word directory it leaves, whether all hit, and the PCM
RECURSIVE assemble_from_words(_, _, _, _)
assemble_from_words(dir, k, i, pcms) ==
    IF i > Len(ClauseKeys[k].text)
    THEN [dir |-> dir, hit |-> TRUE, pcm |-> assemble_word_audio(pcms)]
    ELSE LET got == cache_get(dir, WordFp(k, i))
         IN  IF got.hit
             THEN assemble_from_words(got.dir, k, i + 1, Append(pcms, got.pcm))
             ELSE [dir |-> got.dir, hit |-> FALSE, pcm |-> << >>]

\* extract_and_cache_words / put_word after a full synthesis
RECURSIVE put_words(_, _, _)
put_words(dir, k, i) ==
    IF i > Len(ClauseKeys[k].text) THEN dir
    ELSE put_words(cache_put(dir, WordFp(k, i), WordPcm(k, i)), k, i + 1)

Engine(c, w, pcm, up, tts) ==
    [clause |-> c, words |-> w, pcm |-> pcm, needs_upgrade |-> up, tts |-> tts]

\* synthesize_full: the backend makes the audio, which goes to the clause
\* cache and, cut into words, to the word cache
synthesize_full(c, w, k) ==
    Engine(cache_put(c, ClauseFp(k), Tts(k)), put_words(w, k, 1), Tts(k), FALSE, 1)

SynthesizeAlways(c, w, k) == synthesize_full(c, w, k)

\* synthesize_sentence: clause cache, then word assembly, then full synthesis
synthesize_sentence(c, w, k) ==
    LET cached == cache_get(c, ClauseFp(k))
    IN  IF cached.hit
        THEN Engine(cached.dir, w, cached.pcm, FALSE, 0)
        ELSE LET assembled == assemble_from_words(w, k, 1, << >>)
             IN  IF assembled.hit
                 THEN Engine(cached.dir, assembled.dir, assembled.pcm, TRUE, 0)
                 ELSE synthesize_full(cached.dir, assembled.dir, k)

\* the threads that use the cache: two executor threads of the streaming
\* path, one in put_clause and one in get_clause, and the event-loop thread
\* in the hourly evict_expired
Threads == {"put", "get", "evict"}

\* a thread outside the cache: no position, no metadata read, no time taken
IdleThread == [pc |-> "idle", seen |-> NoMeta, at |-> -1]

\* the cache directories as a process finds them: empty, as made by __init__
CacheInit ==
    /\ clause_pcm = [fp \in ClauseFps |-> NoFile]
    /\ clause_meta = [fp \in ClauseFps |-> NoMeta]
    /\ word_pcm = [fp \in WordFps |-> NoFile]
    /\ word_meta = [fp \in WordFps |-> NoMeta]
    /\ now = 0
    /\ cache_reply = NoCacheReply
    /\ tts_calls = 0
    /\ cache_ops = 0
    /\ last_put = [fp \in ClauseFps |-> NoPut]
    /\ put_by_key = [k \in KeyIds |-> NoPut]
    /\ upgrades = {}
    /\ thr = [th \in Threads |-> IdleThread]

CacheCall == cache_ops < MaxCacheOps /\ cache_ops' = cache_ops + 1

\* put_clause(text, voice, speed, pcm)
PutClause ==
    /\ CacheCall
    /\ \E k \in KeyIds, pcm \in PutInputs :
         /\ clause_pcm' = cache_put(ClauseDir, ClauseFp(k), pcm).pcm
         /\ clause_meta' = cache_put(ClauseDir, ClauseFp(k), pcm).meta
         /\ last_put' = [last_put EXCEPT ![ClauseFp(k)] = [pcm |-> pcm, time |-> now]]
         /\ put_by_key' = [put_by_key EXCEPT ![k] = [pcm |-> pcm, time |-> now]]
         /\ cache_reply' = [NoCacheReply EXCEPT !.op = "put_clause", !.key = k]
    /\ UNCHANGED <<corevars, poolvars, filevars, word_pcm, word_meta, now, tts_calls,
                   upgrades, thr>>

\* get_clause(text, voice, speed)
GetClause ==
    /\ CacheCall
    /\ \E k \in KeyIds :
         LET got == cache_get(ClauseDir, ClauseFp(k))
         IN  /\ clause_pcm' = got.dir.pcm
             /\ clause_meta' = got.dir.meta
             /\ cache_reply' = [NoCacheReply EXCEPT !.op = "get_clause", !.key = k,
                                                    !.hit = got.hit, !.pcm = got.pcm]
    /\ UNCHANGED <<corevars, poolvars, filevars, word_pcm, word_meta, now, tts_calls,
                   last_put, put_by_key, upgrades, thr>>

\* evict_expired()
EvictExpired ==
    /\ CacheCall
    /\ clause_pcm' = cache_evict(ClauseDir).pcm
    /\ clause_meta' = cache_evict(ClauseDir).meta
    /\ word_pcm' = cache_evict(WordDir).pcm
    /\ word_meta' = cache_evict(WordDir).meta
    /\ cache_reply' = [NoCacheReply EXCEPT !.op = "evict_expired",
                                           !.removed = Evicted(ClauseDir) + Evicted(WordDir)]
    /\ UNCHANGED <<corevars, poolvars, filevars, now, tts_calls, last_put, put_by_key,
                   upgrades, thr>>

\* what a run of the engine leaves: the directories, the backend calls, the
\* record of the put_clause it made
EngineRan(k, r) ==
    /\ clause_pcm' = r.clause.pcm
    /\ clause_meta' = r.clause.meta
    /\ word_pcm' = r.words.pcm
    /\ word_meta' = r.words.meta
    /\ tts_calls' = tts_calls + r.tts
    /\ last_put' = IF r.tts = 1
                   THEN [last_put EXCEPT ![ClauseFp(k)] = [pcm |-> Tts(k), time |-> now]]
                   ELSE last_put
    /\ put_by_key' = IF r.tts = 1
                     THEN [put_by_key EXCEPT ![k] = [pcm |-> Tts(k), time |-> now]]
                     ELSE put_by_key

\* the streaming path of handle_client for one clause: synthesize_sentence
\* in the executor, and a background upgrade scheduled when it asks for one
SynthesizeSentence ==
    /\ CacheCall
    /\ \E k \in KeyIds :
         LET r == synthesize_sentence(ClauseDir, WordDir, k)
         IN  /\ EngineRan(k, r)
             /\ upgrades' = IF r.needs_upgrade THEN upgrades \cup {k} ELSE upgrades
             /\ cache_reply' = [NoCacheReply EXCEPT !.op = "synthesize_sentence",
                                    !.key = k, !.hit = (r.tts = 0), !.pcm = r.pcm,
                                    !.needs_upgrade = r.needs_upgrade]
    /\ UNCHANGED <<corevars, poolvars, filevars, now, thr>>

\* bg_upgrade: the scheduled full synthesis
BgUpgrade ==
    /\ CacheCall
    /\ \E k \in upgrades :
         LET r == synthesize_full(ClauseDir, WordDir, k)
         IN  /\ EngineRan(k, r)
             /\ upgrades' = upgrades \ {k}
             /\ cache_reply' = [NoCacheReply EXCEPT !.op = "bg_upgrade", !.key = k,
                                                    !.pcm = r.pcm]
    /\ UNCHANGED <<corevars, poolvars, filevars, now, thr>>

\* time passes
Tick ==
    /\ now < MaxTime
    /\ now' = now + 1
    /\ UNCHANGED <<corevars, poolvars, filevars, clause_pcm, clause_meta, word_pcm,
                   word_meta, cache_reply, tts_calls, cache_ops, last_put,
                   put_by_key, upgrades, thr>>

\* ------------------------------------------------------------- AudioCache, file by file
\* the entry the threads meet on
SharedFp == ClauseFp(1)

\* what the steps of the threads leave alone
threadrest == <<corevars, poolvars, filevars, word_pcm, word_meta, now, cache_reply,
                tts_calls, last_put, put_by_key, upgrades>>

At(th, pc) == thr[th].pc = pc

Goto(th, pc) == thr' = [thr EXCEPT ![th].pc = pc]

Leave(th) == thr' = [thr EXCEPT ![th] = IdleThread]

\* put_clause, first statement: write_bytes(pcm)
PutWritePcm ==
    /\ At("put", "idle")
    /\ CacheCall
    /\ \E pcm \in PutInputs :
         clause_pcm' = [clause_pcm EXCEPT ![SharedFp] = [bytes |-> pcm, mtime |-> now]]
    /\ Goto("put", "read_meta")
    /\ UNCHANGED <<threadrest, clause_meta>>

\* put_clause: existing = _read_meta(meta_path)
PutReadMeta ==
    /\ At("put", "read_meta")
    /\ thr' = [thr EXCEPT !["put"].pc = "write_meta", !["put"].seen = clause_meta[SharedFp]]
    /\ UNCHANGED <<threadrest, clause_pcm, clause_meta, cache_ops>>

\* put_clause: _write_meta with the hits and created_at that were read
PutWriteMeta ==
    /\ At("put", "write_meta")
    /\ clause_meta' = [clause_meta EXCEPT ![SharedFp] =
           IF thr["put"].seen = NoMeta
           THEN [hits |-> 0, created_at |-> now, last_hit |-> -1]
           ELSE [hits |-> thr["put"].seen.hits,
                 created_at |-> thr["put"].seen.created_at, last_hit |-> -1]]
    /\ Leave("put")
    /\ UNCHANGED <<threadrest, clause_pcm, cache_ops>>

\* get_clause: pcm_path.exists(); None without the file
GetExists ==
    /\ At("get", "idle")
    /\ CacheCall
    /\ IF clause_pcm[SharedFp] = NoFile THEN Leave("get") ELSE Goto("get", "stat")
    /\ UNCHANGED <<threadrest, clause_pcm, clause_meta>>

\* get_clause: the expiry test; stat() raises when the file has gone
GetStat ==
    /\ At("get", "stat")
    /\ IF clause_pcm[SharedFp] = NoFile THEN Leave("get")
       ELSE IF Expired(clause_pcm[SharedFp]) THEN Goto("get", "unlink_pcm")
       ELSE Goto("get", "bump_read")
    /\ UNCHANGED <<threadrest, clause_pcm, clause_meta, cache_ops>>

\* get_clause: pcm_path.unlink(missing_ok=True)
GetUnlinkPcm ==
    /\ At("get", "unlink_pcm")
    /\ clause_pcm' = [clause_pcm EXCEPT ![SharedFp] = NoFile]
    /\ Goto("get", "unlink_meta")
    /\ UNCHANGED <<threadrest, clause_meta, cache_ops>>

\* get_clause: meta_path.unlink(missing_ok=True); return None
GetUnlinkMeta ==
    /\ At("get", "unlink_meta")
    /\ clause_meta' = [clause_meta EXCEPT ![SharedFp] = NoMeta]
    /\ Leave("get")
    /\ UNCHANGED <<threadrest, clause_pcm, cache_ops>>

\* _bump_hits: the metadata is read; without the file nothing more is done
GetBumpRead ==
    /\ At("get", "bump_read")
    /\ thr' = [thr EXCEPT !["get"].pc = IF clause_meta[SharedFp] = NoMeta
                                         THEN "read_bytes" ELSE "bump_write",
                          !["get"].seen = clause_meta[SharedFp]]
    /\ UNCHANGED <<threadrest, clause_pcm, clause_meta, cache_ops>>

\* _bump_hits: the metadata is written back with one more hit
GetBumpWrite ==
    /\ At("get", "bump_write")
    /\ clause_meta' = [clause_meta EXCEPT ![SharedFp] =
           [thr["get"].seen EXCEPT !.hits = @ + 1, !.last_hit = now]]
    /\ Goto("get", "read_bytes")
    /\ UNCHANGED <<threadrest, clause_pcm, cache_ops>>

\* get_clause: return pcm_path.read_bytes() (or FileNotFoundError)
GetReadBytes ==
    /\ At("get", "read_bytes")
    /\ Leave("get")
    /\ UNCHANGED <<threadrest, clause_pcm, clause_meta, cache_ops>>

\* evict_expired: now = time.time() and the listing of the directory; the
\* sweep has nothing to do in a directory without the PCM file
EvictList ==
    /\ At("evict", "idle")
    /\ CacheCall
    /\ IF clause_pcm[SharedFp] = NoFile THEN Leave("evict")
       ELSE thr' = [thr EXCEPT !["evict"].pc = "is_file", !["evict"].at = now]
    /\ UNCHANGED <<threadrest, clause_pcm, clause_meta>>

\* evict_expired: path.is_file()
EvictIsFile ==
    /\ At("evict", "is_file")
    /\ IF clause_pcm[SharedFp] = NoFile THEN Leave("evict") ELSE Goto("evict", "stat")
    /\ UNCHANGED <<threadrest, clause_pcm, clause_meta, cache_ops>>

\* evict_expired: (now - path.stat().st_mtime) > ttl_secs; stat() raises when
\* the file has gone
EvictStat ==
    /\ At("evict", "stat")
    /\ IF clause_pcm[SharedFp] # NoFile
          /\ thr["evict"].at - clause_pcm[SharedFp].mtime > TTL
       THEN Goto("evict", "unlink_pcm")
       ELSE Leave("evict")
    /\ UNCHANGED <<threadrest, clause_pcm, clause_meta, cache_ops>>

\* evict_expired: path.unlink(missing_ok=True)
EvictUnlinkPcm ==
    /\ At("evict", "unlink_pcm")
    /\ clause_pcm' = [clause_pcm EXCEPT ![SharedFp] = NoFile]
    /\ Goto("evict", "unlink_meta")
    /\ UNCHANGED <<threadrest, clause_meta, cache_ops>>

\* evict_expired: the metadata sibling is unlinked
EvictUnlinkMeta ==
    /\ At("evict", "unlink_meta")
    /\ clause_meta' = [clause_meta EXCEPT ![SharedFp] = NoMeta]
    /\ Leave("evict")
    /\ UNCHANGED <<threadrest, clause_pcm, cache_ops>>

\* ------------------------------------------------------------- publish_state
\* the two paths: STATE_PATH and the temporary file next to it
StatePath == "state"

TmpInPlace == StatePath

\* tmp = STATE_PATH + ".tmp"
TmpPath == "tmp"

Inodes == 1..(MaxPublications + 1)

\* no file at a path, no file open
NoInode == 0

\* json.dump(state, f) writes the document piece by piece; the n-th
\* publication's document
Document(n) == <<"{", n, "}">>

\* a document json.load accepts
Complete(content) == Len(content) = 3 /\ content = Document(content[2])

NoContent == <<"none">>

IdlePublisher == [pc |-> "idle", n |-> 0, fd |-> NoInode]

\* a reader: the file it has open, the content of that file when it was
\* opened, and what the reader read
IdleReader == [pc |-> "idle", fd |-> NoInode, expect |-> NoContent,
               observed |-> NoContent, reads |-> 0]

\* an inode no path names and no process holds
FreeInode ==
    CHOOSE i \in Inodes :
        /\ \A path \in DOMAIN fs_paths : fs_paths[path] # i
        /\ reader.fd # i
        /\ \A j \in Inodes :
              (/\ \A path \in DOMAIN fs_paths : fs_paths[path] # j
               /\ reader.fd # j) => i <= j

\* the state file as a starting daemon finds it: none, or the last document
\* of an earlier run
FileInit ==
    /\ fs_inodes = [i \in Inodes |-> IF i = 1 THEN Document(0) ELSE << >>]
    /\ fs_paths \in {[p \in {StatePath, TmpPath} |-> NoInode],
                     [p \in {StatePath, TmpPath} |-> IF p = StatePath THEN 1 ELSE NoInode]}
    /\ pub = IdlePublisher
    /\ reader = IdleReader
    /\ io_errors = 0

filerest == <<corevars, poolvars, cachevars>>

\* a file operation of publish_state raises OSError: the with block closes
\* the file and the exception is swallowed
PubError ==
    /\ pub.pc # "idle"
    /\ io_errors < MaxIoErrors
    /\ io_errors' = io_errors + 1
    /\ pub' = [IdlePublisher EXCEPT !.n = pub.n]
    /\ UNCHANGED <<filerest, fs_inodes, fs_paths, reader>>

\* publish_state is called with the next document
PubCall ==
    /\ pub.pc = "idle"
    /\ pub.n < MaxPublications
    /\ pub' = [pub EXCEPT !.pc = "open", !.n = @ + 1]
    /\ UNCHANGED <<filerest, fs_inodes, fs_paths, reader, io_errors>>

\* open(tmp, "w"): the file at the path is truncated, or a new file is made
PubOpen ==
    /\ pub.pc = "open"
    /\ LET i == IF fs_paths[TmpPath] # NoInode THEN fs_paths[TmpPath] ELSE FreeInode
       IN  /\ fs_inodes' = [fs_inodes EXCEPT ![i] = << >>]
           /\ fs_paths' = [fs_paths EXCEPT ![TmpPath] = i]
           /\ pub' = [pub EXCEPT !.pc = "write", !.fd = i]
    /\ UNCHANGED <<filerest, reader, io_errors>>

\* json.dump: the next piece of the document reaches the file
PubWrite ==
    /\ pub.pc = "write"
    /\ fs_inodes' = [fs_inodes EXCEPT ![pub.fd] =
                        Append(@, Document(pub.n)[Len(@) + 1])]
    /\ pub' = [pub EXCEPT !.pc = IF Len(fs_inodes'[pub.fd]) = Len(Document(pub.n))
                                 THEN "replace" ELSE "write"]
    /\ UNCHANGED <<filerest, fs_paths, reader, io_errors>>

\* os.replace(tmp, STATE_PATH): the path names the new file from now on
PubReplace ==
    /\ pub.pc = "replace"
    /\ fs_paths' = IF TmpPath = StatePath THEN fs_paths
                   ELSE [fs_paths EXCEPT ![StatePath] = fs_paths[TmpPath],
                                         ![TmpPath] = NoInode]
    /\ pub' = [IdlePublisher EXCEPT !.n = pub.n]
    /\ UNCHANGED <<filerest, fs_inodes, reader, io_errors>>

\* a reader opens STATE_PATH (nothing to read when there is no file yet)
ReaderOpen ==
    /\ reader.pc = "idle"
    /\ reader.reads < MaxReads
    /\ fs_paths[StatePath] # NoInode
    /\ reader' = [reader EXCEPT !.pc = "read", !.fd = fs_paths[StatePath],
                                !.reads = @ + 1, !.observed = NoContent,
                                !.expect = fs_inodes[fs_paths[StatePath]]]
    /\ UNCHANGED <<filerest, fs_inodes, fs_paths, pub, io_errors>>

\* the reader reads the file it opened and closes it
ReaderRead ==
    /\ reader.pc = "read"
    /\ reader' = [reader EXCEPT !.pc = "idle", !.fd = NoInode,
                                !.observed = fs_inodes[reader.fd]]
    /\ UNCHANGED <<filerest, fs_inodes, fs_paths, pub, io_errors>>

\* ------------------------------------------------------------- the initial state
DaemonInit ==
    /\ queue = << >>
    /\ current = NoRequest
    /\ id_counter = 0
    /\ skip_flag = FALSE
    /\ last_request = NoRequest
    /\ items_played = 0
    /\ last_caller = ""
    /\ total_enqueued = 0
    /\ total_completed = 0
    /\ total_skipped = 0
    /\ claims = {}
    /\ stream = "none"
    /\ published = StateDoc("none", NoRequest, << >>)
    /\ reply = NoReply
    /\ skip_waiting = 0
    /\ dev_waiting = 0
    /\ wpc = "start"
    /\ wseg = "none"
    /\ wlen = 0
    /\ woff = 0
    /\ wretry = FALSE
    /\ wdist = FALSE
    /\ wclause = 0
    /\ is_new_claim = FALSE
    /\ prefetch = "none"
    /\ itemlog = << >>
    /\ afterSkip = 0
    /\ lastdev = 0
    /\ history = << >>
    /\ failed = {}
    /\ chunks = << >>
    /\ wtries = 0
    /\ faults = 0
    /\ devlog = << >>
    /\ subscribers = << >>
    /\ infos = [s \in SubIds |-> NoInfo]
    /\ nframes = 0
    /\ shpc = "idle"
    /\ shlist = << >>

\* the state file of a first run: none
NoStateFile == fs_paths[StatePath] = NoInode

\* config.py: the idle timeout in seconds
IDLE_TIMEOUT == 300

Conns == 1..MaxConns

\* SpeakDaemon.__init__: no connection yet, last_activity = time.monotonic()
ServerInit ==
    /\ conn = [c \in Conns |-> "closed"]
    /\ active_connections = 0
    /\ last_activity = 0
    /\ mono = 0
    /\ exited = FALSE

\* no audio under analysis
NoAudio ==
    /\ energy = << >>
    /\ tail = 0
    /\ n_words = 1
    /\ segments = << >>

Init ==
    /\ DaemonInit
    /\ PoolInit({})
    /\ CacheInit
    /\ FileInit
    /\ NoStateFile
    /\ ServerInit
    /\ NoAudio


\* ------------------------------------------------------------- AudioOutputStream.kill
\* kill suspends (awaits the executor) only when there is a stream handle
KillSuspends == stream # "none"

\* a kill is in flight on the stream object the handle holds
Killing == stream \in {"aborting", "stopping"}

\* the abort (force) or stop submitted to the executor; a chunk write that is
\* in flight on the same stream object is disturbed by it
KillSubmit(force) ==
    /\ stream' = IF force THEN "aborting" ELSE "stopping"
    /\ wdist' = (wdist \/ wpc = "write")

KillResultPropagates(raised) == IF raised THEN "active" ELSE "none"

\* the handle after kill's try block, whether the abort/stop or the close
\* raised (swallowed by the except clause) or not: self._stream = None
KillResult(raised) == "none"

\* kill resumes: self._stream.close() on whatever the handle holds now (an
\* absent handle raises inside the try, swallowed), then self._stream = None
KillFinish ==
    /\ \E raised \in BOOLEAN : stream' = KillResult(raised)
    /\ wdist' = (wdist \/ (wpc = "write" /\ stream # "none"))

\* ------------------------------------------------------------- command handlers
QueuePutFront(q, r) == <<r>> \o q

\* asyncio.Queue.put on the unbounded FIFO
QueuePut(q, r) == Append(q, r)

SkipKillDrains == FALSE

\* the force argument of the kill() in skip
SkipKillForce == TRUE

Enqueue ==
    /\ Yielded
    /\ id_counter < (IF \A s \in SubIds : infos[s].spc = "none"
                     THEN MaxId ELSE MaxLiveId)
    /\ \E in \in RequestInputs :
         LET request == [id |-> id_counter + 1, caller |-> in[1], text |-> in[2],
                         is_replay |-> FALSE]
         IN  /\ id_counter' = id_counter + 1
             /\ total_enqueued' = total_enqueued + 1
             /\ queue' = QueuePut(queue, request)
             /\ Publish(StateDoc("enqueued", current, queue'))
             /\ reply' = [op |-> "enqueue", ok |-> TRUE, n |-> Len(queue')]
    /\ UNCHANGED <<current, skip_flag, last_request, items_played, last_caller,
                   total_completed, total_skipped, claims, stream,
                   skip_waiting, dev_waiting, wvars, obsvars>>
    /\ UNCHANGED extvars
    /\ UNCHANGED subvars
    /\ UNCHANGED compvars

\* skip with nothing current
SkipNothing ==
    /\ Yielded
    /\ current = NoRequest
    /\ reply' = [op |-> "skip", ok |-> FALSE, n |-> 0]
    /\ UNCHANGED <<qvars, claims, stream, pubvars, skip_waiting,
                   dev_waiting, wvars, obsvars>>
    /\ UNCHANGED extvars
    /\ UNCHANGED subvars
    /\ UNCHANGED compvars

\* skip with an item current, up to the await inside kill(force=True); when
\* there is no stream handle kill returns at once and skip runs to its end
SkipStart ==
    /\ Yielded
    /\ current # NoRequest
    /\ total_skipped < MaxSkips
    /\ skip_flag' = TRUE
    /\ total_skipped' = total_skipped + 1
    /\ IF KillSuspends
       THEN /\ skip_waiting + dev_waiting < MaxInFlight
            /\ KillSubmit(SkipKillForce)
            /\ skip_waiting' = skip_waiting + 1
            /\ UNCHANGED <<pubvars, reply>>
       ELSE /\ Publish(StateDoc("skipped", current, queue))
            /\ reply' = [op |-> "skip", ok |-> TRUE, n |-> current.id]
            /\ UNCHANGED <<stream, wdist, skip_waiting>>
    /\ UNCHANGED <<queue, current, id_counter, last_request, items_played,
                   last_caller, total_enqueued, total_completed, claims,
                   dev_waiting, wpc, wseg, wlen, woff, wretry, wclause,
                   is_new_claim, prefetch, obsvars>>
    /\ UNCHANGED extvars
    /\ UNCHANGED subvars
    /\ UNCHANGED compvars

\* skip after kill: publish, then read self._current for the result; the read
\* raises AttributeError when the worker has reset _current meanwhile
SkipResume ==
    /\ Yielded
    /\ skip_waiting > 0
    /\ skip_waiting' = skip_waiting - 1
    /\ KillFinish
    /\ Publish(StateDoc("skipped", current, queue))
    /\ reply' = IF current # NoRequest
                THEN [op |-> "skip", ok |-> TRUE, n |-> current.id]
                ELSE [op |-> "skip_crash", ok |-> FALSE, n |-> 0]
    /\ UNCHANGED <<qvars, claims, dev_waiting, wpc, wseg, wlen, woff, wretry,
                   wclause, is_new_claim, prefetch, obsvars>>
    /\ UNCHANGED extvars
    /\ UNCHANGED subvars
    /\ UNCHANGED compvars

ClearAndSkip ==
    /\ Yielded
    /\ queue' = << >>
    /\ skip_flag' = (current # NoRequest)
    /\ Publish(StateDoc("cleared", current, queue'))
    /\ reply' = [op |-> "clear", ok |-> TRUE, n |-> Len(queue)]
    /\ UNCHANGED <<current, id_counter, last_request, items_played,
                   last_caller, total_enqueued, total_completed, total_skipped,
                   claims, stream, skip_waiting, dev_waiting, wvars, obsvars>>
    /\ UNCHANGED extvars
    /\ UNCHANGED subvars
    /\ UNCHANGED compvars

Clear ==
    /\ Yielded
    /\ queue' = << >>
    /\ Publish(StateDoc("cleared", current, queue'))
    /\ reply' = [op |-> "clear", ok |-> TRUE, n |-> Len(queue)]
    /\ UNCHANGED <<current, id_counter, skip_flag, last_request, items_played,
                   last_caller, total_enqueued, total_completed, total_skipped,
                   claims, stream, skip_waiting, dev_waiting, wvars,
                   obsvars>>
    /\ UNCHANGED extvars
    /\ UNCHANGED subvars
    /\ UNCHANGED compvars

ReplayNothing ==
    /\ Yielded
    /\ last_request = NoRequest
    /\ reply' = [op |-> "replay", ok |-> FALSE, n |-> 0]
    /\ UNCHANGED <<qvars, claims, stream, pubvars, skip_waiting,
                   dev_waiting, wvars, obsvars>>
    /\ UNCHANGED extvars
    /\ UNCHANGED subvars
    /\ UNCHANGED compvars

ReplayCopyKeepId(r, id) == [r EXCEPT !.is_replay = TRUE]

\* req = dict(self._last_request) with a new _queue_id and _is_replay
ReplayCopy(r, id) == [r EXCEPT !.id = id, !.is_replay = TRUE]

ReplayAliased ==
    /\ Yielded
    /\ last_request # NoRequest
    /\ id_counter < MaxId
    /\ id_counter' = id_counter + 1
    /\ last_request' = ReplayCopy(last_request, id_counter')
    /\ queue' = QueuePut(queue, last_request')
    /\ reply' = [op |-> "replay", ok |-> TRUE, n |-> Len(queue')]
    /\ UNCHANGED <<current, skip_flag, items_played, last_caller,
                   total_enqueued, total_completed, total_skipped, claims,
                   stream, pubvars, skip_waiting, dev_waiting, wvars,
                   obsvars>>
    /\ UNCHANGED extvars
    /\ UNCHANGED subvars
    /\ UNCHANGED compvars

Replay ==
    /\ Yielded
    /\ last_request # NoRequest
    /\ id_counter < MaxId
    /\ id_counter' = id_counter + 1
    /\ queue' = QueuePut(queue, ReplayCopy(last_request, id_counter'))
    /\ reply' = [op |-> "replay", ok |-> TRUE, n |-> Len(queue')]
    /\ UNCHANGED <<current, skip_flag, last_request, items_played, last_caller,
                   total_enqueued, total_completed, total_skipped, claims,
                   stream, pubvars, skip_waiting, dev_waiting, wvars,
                   obsvars>>
    /\ UNCHANGED extvars
    /\ UNCHANGED subvars
    /\ UNCHANGED compvars

\* set_device: record the device, kill() without force
SetDevice ==
    /\ Yielded
    /\ IF KillSuspends
       THEN /\ skip_waiting + dev_waiting < MaxInFlight
            /\ KillSubmit(FALSE)
            /\ dev_waiting' = dev_waiting + 1
            /\ UNCHANGED reply
       ELSE /\ reply' = [op |-> "set_device", ok |-> TRUE, n |-> 0]
            /\ UNCHANGED <<stream, wdist, dev_waiting>>
    /\ UNCHANGED <<qvars, claims, pubvars, skip_waiting, wpc, wseg, wlen,
                   woff, wretry, wclause, is_new_claim, prefetch, obsvars>>
    /\ UNCHANGED extvars
    /\ UNCHANGED subvars
    /\ UNCHANGED compvars

SetDeviceResume ==
    /\ Yielded
    /\ dev_waiting > 0
    /\ dev_waiting' = dev_waiting - 1
    /\ KillFinish
    /\ reply' = [op |-> "set_device", ok |-> TRUE, n |-> 0]
    /\ UNCHANGED <<qvars, claims, pubvars, skip_waiting, wpc, wseg, wlen,
                   woff, wretry, wclause, is_new_claim, prefetch, obsvars>>
    /\ UNCHANGED extvars
    /\ UNCHANGED subvars
    /\ UNCHANGED compvars

\* send_json and the end of the connection
SendReply ==
    /\ reply # NoReply
    /\ reply' = NoReply
    /\ UNCHANGED <<qvars, claims, stream, pubvars, skip_waiting,
                   dev_waiting, wvars, obsvars>>
    /\ UNCHANGED extvars
    /\ UNCHANGED subvars
    /\ UNCHANGED compvars


\* ------------------------------------------------------------- AudioOutputStream.write_pcm
\* the worker enters write_pcm(pcm) for segment seg of the item; speech is
\* the one segment written with a skip_flag_fn
BeginWrite(seg, len, clause) ==
    /\ wseg' = seg
    /\ wlen' = len
    /\ woff' = 0
    /\ wclause' = clause
    /\ wpc' = "wp_begin"

UsesSkipFn(seg) == seg = "speech"

\* the log of the item's writes: one entry <<segment, clause, fully written>>
\* per write_pcm call that got a chunk to the device
LogChunk(log, seg, clause) ==
    IF log # << >> /\ Last(log)[1] = seg /\ Last(log)[2] = clause
    THEN log
    ELSE Append(log, <<seg, clause, FALSE>>)

LogReturn(log, seg, clause, full) ==
    IF full /\ log # << >> /\ Last(log)[1] = seg /\ Last(log)[2] = clause
    THEN [log EXCEPT ![Len(log)] = <<seg, clause, TRUE>>]
    ELSE log

\* where the worker goes on when write_pcm returns
AfterWrite(seg) ==
    CASE seg \in {"gap", "sep"} -> "resolve"
      [] seg = "start" -> "announce"
      [] seg = "ann" -> "ann_end"
      [] seg = "speech" -> "remaining"
      [] OTHER -> "item_done"

\* ensure_running at the head of write_pcm.  With a kill in flight the
\* stream's active flag is read while the executor aborts or stops it, so
\* either value may be seen.
WpBegin ==
    /\ WorkerTurn
    /\ wpc = "wp_begin"
    /\ \/ /\ stream # "none"
          /\ wpc' = "wp_loop"
          /\ UNCHANGED stream
       \/ /\ Killing
          /\ stream' = "none"
          /\ wpc' = "open"
       \/ /\ stream = "none"
          /\ wpc' = "open"
          /\ UNCHANGED stream
    /\ UNCHANGED <<qvars, claims, pubvars, reply, skip_waiting, dev_waiting,
                   wseg, wlen, woff, wretry, wdist, wclause, is_new_claim,
                   prefetch, obsvars>>
    /\ UNCHANGED extvars
    /\ UNCHANGED subvars
    /\ UNCHANGED compvars

\* the executor has opened and started the stream
WOpen ==
    /\ WorkerTurn
    /\ wpc = "open"
    /\ stream' = "active"
    /\ wpc' = "wp_loop"
    /\ UNCHANGED <<qvars, claims, pubvars, reply, skip_waiting, dev_waiting,
                   wseg, wlen, woff, wretry, wdist, wclause, is_new_claim,
                   prefetch, obsvars>>
    /\ UNCHANGED extvars
    /\ UNCHANGED subvars
    /\ UNCHANGED compvars

\* the skip check at the head of the chunk loop
SkipSeen(seg) == UsesSkipFn(seg) /\ skip_flag

\* head of the chunk loop: leave when all is written or the skip flag is
\* seen; otherwise submit the next chunk.  self._stream.write on an absent
\* handle raises AttributeError, which is no PortAudioError.
WpLoop ==
    /\ WorkerTurn
    /\ wpc = "wp_loop"
    /\ IF woff >= wlen \/ SkipSeen(wseg)
       THEN /\ wpc' = AfterWrite(wseg)
            /\ wseg' = "none"
            /\ wlen' = 0
            /\ woff' = 0
            /\ itemlog' = LogReturn(itemlog, wseg, wclause, woff >= wlen)
            /\ chunks' = << >>
            /\ UNCHANGED <<wretry, wdist, wtries>>
       ELSE IF stream = "none"
       THEN /\ wpc' = "except"
            /\ UNCHANGED <<wseg, wlen, woff, wretry, wdist, itemlog, chunks,
                           wtries>>
       ELSE /\ wpc' = "write"
            /\ wretry' = FALSE
            /\ wdist' = Killing
            /\ wtries' = 1
            /\ UNCHANGED <<wseg, wlen, woff, itemlog, chunks>>
    /\ UNCHANGED <<qvars, claims, stream, pubvars, reply,
                   skip_waiting, dev_waiting, wclause, is_new_claim, prefetch,
                   afterSkip, lastdev, devlog, history, failed, faults>>
    /\ UNCHANGED subvars
    /\ UNCHANGED compvars

\* the bytes pcm[off : off + len] of the write_pcm call in progress
Pcm(off, len) == <<current.id, wseg, wclause, off, len>>

ChunkLenWhole == wlen - woff

\* len(pcm[offset : offset + WRITE_CHUNK_BYTES])
ChunkLen == Min(WRITE_CHUNK_BYTES, wlen - woff)

\* the chunk write returned
WWriteOk ==
    /\ WorkerTurn
    /\ wpc = "write"
    /\ woff' = woff + ChunkLen
    /\ wpc' = "wp_loop"
    /\ wretry' = FALSE
    /\ wdist' = FALSE
    /\ itemlog' = LogChunk(itemlog, wseg, wclause)
    /\ afterSkip' = IF skip_flag THEN Min(afterSkip + 1, AfterSkipCap) ELSE afterSkip
    /\ lastdev' = current.id
    /\ chunks' = Append(chunks, <<woff, ChunkLen>>)
    /\ devlog' = Append(devlog, Pcm(woff, ChunkLen))
    /\ wtries' = 0
    /\ broadcast_audio(Pcm(woff, ChunkLen))
    /\ UNCHANGED <<qvars, claims, stream, published, reply,
                   skip_waiting, dev_waiting, wseg, wlen, wclause,
                   is_new_claim, prefetch, history, failed, faults>>
    /\ UNCHANGED subvars
    /\ UNCHANGED compvars

RetryFailureRetried == FALSE

\* the second write of a chunk sits in the except handler, outside any try:
\* what it raises leaves write_pcm
RetryFailureSurfaces == wretry

\* a chunk write raised PortAudioError: first time close, drop the handle and
\* reopen; a failure of the retry propagates
WriteRaised ==
    /\ wpc = "write"
    /\ IF RetryFailureSurfaces
       THEN /\ wpc' = "except"
            /\ UNCHANGED stream
       ELSE /\ wpc' = "reopen"
            /\ stream' = "none"
    /\ wdist' = FALSE
    /\ UNCHANGED <<qvars, claims, pubvars, reply, skip_waiting, dev_waiting,
                   wseg, wlen, woff, wretry, wclause, is_new_claim, prefetch,
                   obsvars, history, failed, chunks, wtries>>
    /\ UNCHANGED subvars

\* the write fails because the stream was aborted, stopped or closed under it
WWriteErr ==
    /\ WorkerTurn
    /\ wdist
    /\ WriteRaised
    /\ UNCHANGED faults
    /\ UNCHANGED compvars

\* the write fails on its own (the device went away)
WWriteFault ==
    /\ WorkerTurn
    /\ ~wdist
    /\ faults < MaxFaults
    /\ WriteRaised
    /\ faults' = faults + 1
    /\ UNCHANGED compvars

\* sd.RawOutputStream(...) or start() raises in ensure_running: the error
\* leaves write_pcm
WOpenFault ==
    /\ WorkerTurn
    /\ wpc \in {"open", "reopen"}
    /\ faults < MaxFaults
    /\ faults' = faults + 1
    /\ wpc' = "except"
    /\ UNCHANGED <<qvars, claims, stream, pubvars, reply, skip_waiting,
                   dev_waiting, wseg, wlen, woff, wretry, wdist, wclause,
                   is_new_claim, prefetch, obsvars, history, failed, chunks,
                   wtries>>
    /\ UNCHANGED subvars
    /\ UNCHANGED compvars

\* ensure_running inside the handler has reopened; the chunk is resubmitted
WReopen ==
    /\ WorkerTurn
    /\ wpc = "reopen"
    /\ stream' = "active"
    /\ wpc' = "write"
    /\ wretry' = TRUE
    /\ wdist' = FALSE
    /\ wtries' = wtries + 1
    /\ UNCHANGED <<qvars, claims, pubvars, reply, skip_waiting, dev_waiting,
                   wseg, wlen, woff, wclause, is_new_claim, prefetch, obsvars,
                   history, failed, chunks, faults>>
    /\ UNCHANGED subvars
    /\ UNCHANGED compvars


\* ------------------------------------------------------------- PlaybackQueue._worker
Caller == current.caller

\* text = request.get("text", "").strip()
Text == Strip(current.text)

\* the worker's first step: _publish("idle"), then the loop
WStart ==
    /\ WorkerTurn
    /\ wpc = "start"
    /\ Publish(StateDoc("idle", current, queue))
    /\ wpc' = "loop"
    /\ UNCHANGED <<qvars, claims, stream, reply, skip_waiting,
                   dev_waiting, wseg, wlen, woff, wretry, wdist, wclause,
                   is_new_claim, prefetch, obsvars>>
    /\ UNCHANGED extvars
    /\ UNCHANGED subvars
    /\ UNCHANGED compvars

RecordsHistoryAlways(request) == TRUE

\* if text_for_history: the untrimmed text decides
RecordsHistory(request) == request.text # << >>

\* request = queue.get(); _current = request; _skip_flag = False; the text
\* goes to the history before the try block
Dequeue ==
    /\ current' = Head(queue)
    /\ history' = IF RecordsHistory(Head(queue))
                  THEN Append(history, Head(queue).id)
                  ELSE history
    /\ UNCHANGED <<failed, chunks, wtries, faults>>
    /\ queue' = Tail(queue)
    /\ skip_flag' = FALSE
    /\ wpc' = "spacing"
    /\ itemlog' = << >>
    /\ devlog' = << >>
    /\ afterSkip' = 0
    /\ UNCHANGED <<id_counter, last_request, items_played, last_caller,
                   total_enqueued, total_completed, total_skipped, claims,
                   stream, pubvars, reply, skip_waiting, dev_waiting,
                   wseg, wlen, woff, wretry, wdist, wclause, is_new_claim,
                   prefetch, lastdev>>

\* top of the while loop: queue.get() returns at once when an item is
\* pending and suspends otherwise
WLoop ==
    /\ WorkerTurn
    /\ wpc = "loop"
    /\ IF queue = << >>
       THEN /\ wpc' = "get"
            /\ UNCHANGED <<qvars, claims, stream, pubvars, reply,
                           skip_waiting, dev_waiting, wseg, wlen, woff, wretry,
                           wdist, wclause, is_new_claim, prefetch, obsvars,
                           extvars>>
       ELSE Dequeue
    /\ UNCHANGED subvars
    /\ UNCHANGED compvars

WGetMissesWakeup ==
    /\ WorkerTurn
    /\ wpc = "get"
    /\ Len(queue) > 1
    /\ Dequeue
    /\ UNCHANGED subvars
    /\ UNCHANGED compvars

\* the suspended queue.get() is woken by a put
WGet ==
    /\ WorkerTurn
    /\ wpc = "get"
    /\ queue # << >>
    /\ Dequeue
    /\ UNCHANGED subvars
    /\ UNCHANGED compvars

SpacingSoundAnyDifference(caller, last) ==
    IF caller # last THEN "gap" ELSE "sep"

\* the spacing sound between items of one batch
SpacingSound(caller, last) ==
    IF caller # "" /\ caller # last THEN "gap" ELSE "sep"

SpacingPcm(sound) == IF sound = "gap" THEN CALLER_GAP ELSE SEPARATOR_TONE

WSpacing ==
    /\ WorkerTurn
    /\ wpc = "spacing"
    /\ IF items_played > 0
       THEN LET sound == SpacingSound(Caller, last_caller)
            IN  BeginWrite(sound, SpacingPcm(sound), 0)
       ELSE /\ wpc' = "resolve"
            /\ UNCHANGED <<wseg, wlen, woff, wclause>>
    /\ UNCHANGED <<qvars, claims, stream, pubvars, reply,
                   skip_waiting, dev_waiting, wretry, wdist, is_new_claim,
                   prefetch, obsvars>>
    /\ UNCHANGED extvars
    /\ UNCHANGED subvars
    /\ UNCHANGED compvars

\* the voice pool key of the current request (one session per caller here)
ClaimKey == <<Caller, "">>

\* voice_pool.get_voice (no locks configured), the prefetch task, and the
\* start tone
WResolve ==
    /\ WorkerTurn
    /\ wpc = "resolve"
    /\ IF Caller # ""
       THEN /\ is_new_claim' = (ClaimKey \notin claims)
            /\ claims' = claims \cup {ClaimKey}
       ELSE /\ is_new_claim' = FALSE
            /\ UNCHANGED claims
    /\ prefetch' = IF Text # << >> THEN "running" ELSE "none"
    /\ IF Caller # ""
       THEN BeginWrite("start", get_caller_tone(Caller), 0)
       ELSE /\ wpc' = "announce"
            /\ UNCHANGED <<wseg, wlen, woff, wclause>>
    /\ UNCHANGED <<qvars, stream, pubvars, reply, skip_waiting,
                   dev_waiting, wretry, wdist, obsvars>>
    /\ UNCHANGED extvars
    /\ UNCHANGED subvars
    /\ UNCHANGED compvars

\* "<caller> here" for a new claim
WAnnounce ==
    /\ WorkerTurn
    /\ wpc = "announce"
    /\ wpc' = IF is_new_claim /\ Caller # "" THEN "ann_synth" ELSE "publish_playing"
    /\ is_new_claim' = FALSE
    /\ UNCHANGED <<qvars, claims, stream, pubvars, reply,
                   skip_waiting, dev_waiting, wseg, wlen, woff, wretry, wdist,
                   wclause, prefetch, obsvars>>
    /\ UNCHANGED extvars
    /\ UNCHANGED subvars
    /\ UNCHANGED compvars

\* the announcement's stream yields its audio: written with no skip function
WAnnSynth ==
    /\ WorkerTurn
    /\ wpc = "ann_synth"
    /\ \E n \in PcmSizes : BeginWrite("ann", n, 0)
    /\ UNCHANGED <<qvars, claims, stream, pubvars, reply,
                   skip_waiting, dev_waiting, wretry, wdist, is_new_claim,
                   prefetch, obsvars>>
    /\ UNCHANGED extvars
    /\ UNCHANGED subvars
    /\ UNCHANGED compvars

\* the announcement's stream ends
WAnnEnd ==
    /\ WorkerTurn
    /\ wpc = "ann_end"
    /\ wpc' = "publish_playing"
    /\ UNCHANGED <<qvars, claims, stream, pubvars, reply,
                   skip_waiting, dev_waiting, wseg, wlen, woff, wretry, wdist,
                   wclause, is_new_claim, prefetch, obsvars>>
    /\ UNCHANGED extvars
    /\ UNCHANGED subvars
    /\ UNCHANGED compvars

PrefetchNotAwaited == FALSE

\* await prefetch_task suspends while the task is running
PrefetchPending == prefetch = "running"

\* _publish("playing"), then await the prefetch task if there is one and it
\* has not finished
WPublishPlaying ==
    /\ WorkerTurn
    /\ wpc = "publish_playing"
    /\ Publish(StateDoc("playing", current, queue))
    /\ wpc' = IF PrefetchPending THEN "prefetch_wait"
              ELSE IF prefetch = "failed" THEN "except"
              ELSE "render"
    /\ UNCHANGED <<qvars, claims, stream, reply, skip_waiting,
                   dev_waiting, wseg, wlen, woff, wretry, wdist, wclause,
                   is_new_claim, prefetch, obsvars>>
    /\ UNCHANGED extvars
    /\ UNCHANGED subvars
    /\ UNCHANGED compvars

\* the prefetch task (first clause synthesis) finishes on its own
PrefetchDone ==
    /\ Yielded
    /\ prefetch = "running"
    /\ prefetch' = "done"
    /\ UNCHANGED <<qvars, claims, stream, pubvars, reply,
                   skip_waiting, dev_waiting, wpc, wseg, wlen, woff, wretry,
                   wdist, wclause, is_new_claim, obsvars>>
    /\ UNCHANGED extvars
    /\ UNCHANGED subvars
    /\ UNCHANGED compvars

\* the synthesis in the prefetch task raises: the task ends with the
\* exception, which await prefetch_task re-raises in the worker
PrefetchFault ==
    /\ Yielded
    /\ prefetch = "running"
    /\ faults < MaxFaults
    /\ faults' = faults + 1
    /\ prefetch' = "failed"
    /\ UNCHANGED <<qvars, claims, stream, pubvars, reply,
                   skip_waiting, dev_waiting, wpc, wseg, wlen, woff, wretry,
                   wdist, wclause, is_new_claim, obsvars, history, failed,
                   chunks, wtries>>
    /\ UNCHANGED subvars
    /\ UNCHANGED compvars

\* kokoro.create_stream raises while the worker awaits the announcement's or
\* a clause's audio
WSynthFault ==
    /\ WorkerTurn
    /\ wpc \in {"ann_synth", "ann_end", "clause_synth", "clause_end"}
    /\ faults < MaxFaults
    /\ faults' = faults + 1
    /\ wpc' = "except"
    /\ UNCHANGED <<qvars, claims, stream, pubvars, reply,
                   skip_waiting, dev_waiting, wseg, wlen, woff, wretry, wdist,
                   wclause, is_new_claim, prefetch, obsvars, history, failed,
                   chunks, wtries>>
    /\ UNCHANGED subvars
    /\ UNCHANGED compvars

WPrefetchWait ==
    /\ WorkerTurn
    /\ wpc = "prefetch_wait"
    /\ prefetch \in {"done", "failed"}
    /\ wpc' = IF prefetch = "failed" THEN "except" ELSE "render"
    /\ UNCHANGED <<qvars, claims, stream, pubvars, reply,
                   skip_waiting, dev_waiting, wseg, wlen, woff, wretry, wdist,
                   wclause, is_new_claim, prefetch, obsvars>>
    /\ UNCHANGED extvars
    /\ UNCHANGED subvars
    /\ UNCHANGED compvars

\* render_speech with the prefetch bundle: the first clause's audio is
\* played unless it is empty or the skip flag is set
WRender ==
    /\ WorkerTurn
    /\ wpc = "render"
    /\ IF Text = << >>
       THEN /\ wpc' = "end_tone"
            /\ UNCHANGED <<wseg, wlen, woff, wclause>>
       ELSE \E n \in PcmSizes \cup {0} :
              IF n > 0 /\ ~skip_flag
              THEN BeginWrite("speech", n, 1)
              ELSE /\ wpc' = "remaining"
                   /\ wclause' = 1
                   /\ UNCHANGED <<wseg, wlen, woff>>
    /\ UNCHANGED <<qvars, claims, stream, pubvars, reply,
                   skip_waiting, dev_waiting, wretry, wdist, is_new_claim,
                   prefetch, obsvars>>
    /\ UNCHANGED extvars
    /\ UNCHANGED subvars
    /\ UNCHANGED compvars

\* the loop over the remaining clauses; wclause is the clause just handled
WRemaining ==
    /\ WorkerTurn
    /\ wpc = "remaining"
    /\ IF skip_flag \/ wclause >= Len(split_clauses(Text))
       THEN /\ wpc' = "end_tone"
            /\ wclause' = 0
       ELSE /\ wpc' = "clause_synth"
            /\ wclause' = wclause + 1
    /\ UNCHANGED <<qvars, claims, stream, pubvars, reply,
                   skip_waiting, dev_waiting, wseg, wlen, woff, wretry, wdist,
                   is_new_claim, prefetch, obsvars>>
    /\ UNCHANGED extvars
    /\ UNCHANGED subvars
    /\ UNCHANGED compvars

\* _synthesize_and_play_clause: the stream yields audio (dropped, and the
\* clause loop left, when the skip flag is set) or ends with none
WClauseSynth ==
    /\ WorkerTurn
    /\ wpc = "clause_synth"
    /\ \E n \in PcmSizes \cup {0} :
         IF n = 0
         THEN /\ wpc' = "remaining"
              /\ UNCHANGED <<wlen, wclause>>
         ELSE IF skip_flag
         THEN /\ wpc' = "end_tone"
              /\ wclause' = 0
              /\ UNCHANGED wlen
         ELSE /\ wpc' = "clause_end"
              /\ wlen' = n
              /\ UNCHANGED wclause
    /\ UNCHANGED <<qvars, claims, stream, pubvars, reply,
                   skip_waiting, dev_waiting, wseg, woff, wretry, wdist,
                   is_new_claim, prefetch, obsvars>>
    /\ UNCHANGED extvars
    /\ UNCHANGED subvars
    /\ UNCHANGED compvars

\* the clause's stream ends: trim, then _play_audio with the skip function
WClauseEnd ==
    /\ WorkerTurn
    /\ wpc = "clause_end"
    /\ BeginWrite("speech", wlen, wclause)
    /\ UNCHANGED <<qvars, claims, stream, pubvars, reply,
                   skip_waiting, dev_waiting, wretry, wdist, is_new_claim,
                   prefetch, obsvars>>
    /\ UNCHANGED extvars
    /\ UNCHANGED subvars
    /\ UNCHANGED compvars

WEndTone ==
    /\ WorkerTurn
    /\ wpc = "end_tone"
    /\ IF Caller # ""
       THEN BeginWrite("end", get_caller_tone(Caller), 0)
       ELSE /\ wpc' = "item_done"
            /\ UNCHANGED <<wseg, wlen, woff, wclause>>
    /\ UNCHANGED <<qvars, claims, stream, pubvars, reply,
                   skip_waiting, dev_waiting, wretry, wdist, is_new_claim,
                   prefetch, obsvars>>
    /\ UNCHANGED extvars
    /\ UNCHANGED subvars
    /\ UNCHANGED compvars

\* the end of the try block
WItemDone ==
    /\ WorkerTurn
    /\ wpc = "item_done"
    /\ Publish(StateDoc("item_done", current, queue))
    /\ last_request' = current
    /\ last_caller' = Caller
    /\ items_played' = items_played + 1
    /\ total_completed' = total_completed + 1
    /\ wpc' = "finally"
    /\ UNCHANGED <<queue, current, id_counter, skip_flag, total_enqueued,
                   total_skipped, claims, stream, reply, skip_waiting,
                   dev_waiting, wseg, wlen, woff, wretry, wdist, wclause,
                   is_new_claim, prefetch, obsvars>>
    /\ UNCHANGED extvars
    /\ UNCHANGED subvars
    /\ UNCHANGED compvars

WExceptCompletes ==
    /\ WorkerTurn
    /\ wpc = "except"
    /\ wpc' = "finally"
    /\ wseg' = "none"
    /\ wlen' = 0
    /\ woff' = 0
    /\ wretry' = FALSE
    /\ wclause' = 0
    /\ is_new_claim' = FALSE
    /\ wdist' = FALSE
    /\ failed' = failed \cup {current.id}
    /\ chunks' = << >>
    /\ wtries' = 0
    /\ last_request' = current
    /\ total_completed' = total_completed + 1
    /\ UNCHANGED <<queue, current, id_counter, skip_flag, items_played,
                   last_caller, total_enqueued, total_skipped, claims, stream,
                   pubvars, reply, skip_waiting, dev_waiting, prefetch,
                   obsvars, history, faults>>
    /\ UNCHANGED subvars
    /\ UNCHANGED compvars

\* except Exception: the item is dropped
WExcept ==
    /\ WorkerTurn
    /\ wpc = "except"
    /\ wpc' = "finally"
    /\ wseg' = "none"
    /\ wlen' = 0
    /\ woff' = 0
    /\ wretry' = FALSE
    /\ wclause' = 0
    /\ is_new_claim' = FALSE
    /\ wdist' = FALSE
    /\ failed' = failed \cup {current.id}
    /\ chunks' = << >>
    /\ wtries' = 0
    /\ UNCHANGED <<qvars, claims, stream, pubvars, reply,
                   skip_waiting, dev_waiting, prefetch, obsvars, history,
                   faults>>
    /\ UNCHANGED subvars
    /\ UNCHANGED compvars

FinallyKillAborts == TRUE

\* the force argument of the kill() in the finally block (its default)
FinallyKillForce == FALSE

\* finally: _current = None and _on_activity(); with an empty queue reset
\* _items_played and kill() the stream (suspending when there is one), then
\* publish idle
WFinally ==
    /\ WorkerTurn
    /\ wpc = "finally"
    /\ current' = NoRequest
    /\ prefetch' = "none"
    /\ itemlog' = << >>
    /\ devlog' = << >>
    /\ afterSkip' = 0
    /\ IF queue = << >>
       THEN /\ items_played' = 0
            /\ IF KillSuspends
               THEN /\ KillSubmit(FinallyKillForce)
                    /\ wpc' = "kill"
                    /\ UNCHANGED pubvars
               ELSE /\ Publish(StateDoc("idle", NoRequest, queue))
                    /\ wpc' = "loop"
                    /\ UNCHANGED <<stream, wdist>>
       ELSE /\ wpc' = "loop"
            /\ UNCHANGED <<items_played, stream, wdist, pubvars>>
    /\ UNCHANGED <<queue, id_counter, skip_flag, last_request, last_caller,
                   total_enqueued, total_completed, total_skipped, claims,
                   reply, skip_waiting, dev_waiting, wseg, wlen, woff, wretry,
                   wclause, is_new_claim, lastdev>>
    /\ UNCHANGED extvars
    /\ UNCHANGED subvars
    /\ last_activity' = mono
    /\ UNCHANGED <<poolvars, cachevars, filevars, conn, active_connections,
                   mono, exited, audiovars>>

\* kill() resumes in the finally block
WKill ==
    /\ WorkerTurn
    /\ wpc = "kill"
    /\ KillFinish
    /\ Publish(StateDoc("idle", current, queue))
    /\ wpc' = "loop"
    /\ UNCHANGED <<qvars, claims, reply, skip_waiting, dev_waiting, wseg,
                   wlen, woff, wretry, wclause, is_new_claim, prefetch,
                   obsvars>>
    /\ UNCHANGED extvars
    /\ UNCHANGED subvars
    /\ UNCHANGED compvars

\* ------------------------------------------------------------- subscribers
\* everything but the subscribers' state
playvars == <<qvars, claims, stream, published, reply, skip_waiting,
              dev_waiting, wvars, obsvars, extvars>>

remove_keeps(subs, s) == subs

\* self._subscribers.pop(writer, None)
remove(subs, s) == SelectSeq(subs, LAMBDA x : x # s)

\* remove() on a subscribed writer: set the disconnect event and cancel the
\* sender task, which then ends at its await without another write
Removed(info) == [info EXCEPT !.disconnect = TRUE, !.spc = "done"]

\* the frames of the sink that the sender wrote
Written(info) == SelectSeq(info.sink, LAMBDA f : f.type # "end")

\* the subscribe command: the item_start event goes to the subscribers there
\* are, then add() makes the info with its sender task, which starts in
\* queue.get()
Subscribe ==
    /\ Yielded
    /\ id_counter <= MaxJoinId
    /\ nframes <= MaxJoinFrames
    /\ \E in \in SubscribeInputs :
         LET s == in[1]
             tell == current # NoRequest /\ subscribers # << >>
             told == IF tell
                     THEN Fanout(encode_broadcast_frame("metadata",
                                     <<current.id, "item_start">>), TRUE)
                     ELSE infos
         IN  /\ infos[s].spc = "none"
             /\ infos' = [told EXCEPT ![s] =
                             [NoInfo EXCEPT !.include_metadata = in[2],
                                            !.spc = "get",
                                            !.joined = current.id]]
             /\ nframes' = IF tell THEN nframes + 1 ELSE nframes
             /\ subscribers' = Append(subscribers, s)
    /\ UNCHANGED <<playvars, shpc, shlist>>
    /\ UNCHANGED compvars

SenderGetKeeps ==
    /\ Yielded
    /\ \E s \in SubIds :
         /\ infos[s].spc = "get"
         /\ infos[s].queue # << >>
         /\ Len(Written(infos[s])) < MaxSent
         /\ infos' = [infos EXCEPT ![s].sink = Append(@, Head(infos[s].queue)),
                                   ![s].spc = "drain"]
    /\ UNCHANGED <<playvars, nframes, subvars>>
    /\ UNCHANGED compvars

\* _sender: queue.get() returns a frame and writer.write(frame) hands it to
\* the sink; the sender then waits in writer.drain()
SenderGet ==
    /\ Yielded
    /\ \E s \in SubIds :
         /\ infos[s].spc = "get"
         /\ infos[s].queue # << >>
         /\ Len(Written(infos[s])) < MaxSent
         /\ infos' = [infos EXCEPT ![s].queue = Tail(@),
                                   ![s].sink = Append(@, Head(infos[s].queue)),
                                   ![s].spc = "drain"]
    /\ UNCHANGED <<playvars, nframes, subvars>>
    /\ UNCHANGED compvars

\* writer.drain() returns (bytes_sent, which nothing reads, is left out)
SenderDrained ==
    /\ Yielded
    /\ \E s \in SubIds :
         /\ infos[s].spc = "drain"
         /\ infos' = [infos EXCEPT ![s].spc = "get"]
    /\ UNCHANGED <<playvars, nframes, subvars>>
    /\ UNCHANGED compvars

\* writer.write (the frame taken is lost) or writer.drain raises: the sender
\* leaves its loop and its finally block removes the subscriber
SenderFail ==
    /\ Yielded
    /\ nframes <= MaxEvents
    /\ \E s \in SubIds :
         /\ \/ infos[s].spc = "drain"
            \/ infos[s].spc = "get" /\ infos[s].queue # << >>
         /\ LET info == IF infos[s].spc = "get"
                         THEN [infos[s] EXCEPT !.queue = Tail(@), !.held = @ + 1]
                         ELSE infos[s]
            IN  infos' = [infos EXCEPT ![s] =
                            IF Subscribed(s) THEN Removed(info)
                            ELSE [info EXCEPT !.spc = "done"]]
         /\ subscribers' = remove(subscribers, s)
    /\ UNCHANGED <<playvars, nframes, shpc, shlist>>
    /\ UNCHANGED compvars

\* shutdown(): the snapshot list(self._subscribers.values())
ShutdownStart ==
    /\ Yielded
    /\ shpc = "idle"
    /\ nframes <= MaxJoinFrames
    /\ shlist' = subscribers
    /\ shpc' = "next"
    /\ UNCHANGED <<playvars, infos, nframes, subscribers>>
    /\ UNCHANGED compvars

\* shutdown(): the next writer of the snapshot gets the terminator (a write
\* that raises is swallowed and the drain is not reached); after the last
\* one every writer subscribed at that point is removed
ShutdownNext ==
    /\ shpc = "next"
    /\ IF shlist = << >>
       THEN /\ infos' = [s \in SubIds |->
                            IF Subscribed(s) THEN Removed(infos[s]) ELSE infos[s]]
            /\ subscribers' = << >>
            /\ shpc' = "done"
            /\ UNCHANGED shlist
       ELSE \E ok \in BOOLEAN :
              IF ok
              THEN /\ infos' = [infos EXCEPT ![Head(shlist)].sink =
                                                Append(@, terminator)]
                   /\ shpc' = "drain"
                   /\ UNCHANGED <<shlist, subscribers>>
              ELSE /\ shlist' = Tail(shlist)
                   /\ UNCHANGED <<infos, shpc, subscribers>>
    /\ UNCHANGED <<playvars, nframes>>
    /\ UNCHANGED compvars

\* shutdown(): the drain after the terminator returns or raises
ShutdownDrained ==
    /\ Yielded
    /\ shpc = "drain"
    /\ shlist' = Tail(shlist)
    /\ shpc' = "next"
    /\ UNCHANGED <<playvars, infos, nframes, subscribers>>
    /\ UNCHANGED compvars

\* a caller hands a chunk to broadcast_audio
BroadcastAudio ==
    /\ Yielded
    /\ nframes < (IF shpc = "idle" THEN MaxFrames ELSE MaxEvents)
    /\ broadcast_audio(<<nframes + 1, "pcm">>)
    /\ UNCHANGED <<playvars, subvars>>
    /\ UNCHANGED compvars

\* a caller hands an event to broadcast_metadata
BroadcastMetadata ==
    /\ Yielded
    /\ nframes < MaxEvents
    /\ Broadcast(encode_broadcast_frame("metadata", <<nframes + 1, "event">>), TRUE)
    /\ UNCHANGED <<playvars, subvars>>
    /\ UNCHANGED compvars

\* ------------------------------------------------------------- audio.py
\* config.py: SILENCE_THRESHOLD = 0.02, in hundredths
SILENCE_THRESHOLD_PCT == 2

\* config.py: int(SAMPLE_RATE * 0.02)
SILENCE_MIN_SAMPLES == (SAMPLE_RATE * 2) \div 100

\* int(SAMPLE_RATE * 0.005): the samples of a 5 ms frame
frame_len == (SAMPLE_RATE * 5) \div 1000

\* the energy of a loud frame and the energies of a quiet one: nothing, below
\* the threshold under a loud peak, and exactly on it
LoudEnergy == 100

QuietLevels == {0, 1, 2}

\* the frames of a run and the samples left after the last whole frame
RunLens == {1, 3, 4}

Tails == {0, 1, frame_len - 1}

RECURSIVE SeqMax(_)
SeqMax(s) == IF s = << >> THEN 0
             ELSE LET m == SeqMax(Tail(s)) IN IF Head(s) > m THEN Head(s) ELSE m

\* peak_energy = max(energy) if max(energy) > 0 else 1.0;
\* is_silent = energy < peak_energy * SILENCE_THRESHOLD
IsSilent(e) ==
    LET peak == IF SeqMax(e) > 0 THEN SeqMax(e) ELSE 1
    IN  [i \in 1..Len(e) |-> e[i] * 100 < peak * SILENCE_THRESHOLD_PCT]

\* the loop over the frames from frame i (counted from 0): a silence of at
\* least SILENCE_MIN_SAMPLES that a loud frame ends gives its midpoint
RECURSIVE Boundaries(_, _, _, _, _)
Boundaries(silent, i, in_silence, silence_start, acc) ==
    IF i >= Len(silent) THEN acc
    ELSE IF silent[i + 1] /\ ~in_silence
         THEN Boundaries(silent, i + 1, TRUE, i, acc)
    ELSE IF ~silent[i + 1] /\ in_silence
         THEN Boundaries(silent, i + 1, FALSE, silence_start,
                  IF (i - silence_start) * frame_len >= SILENCE_MIN_SAMPLES
                  THEN Append(acc, ((silence_start + i) \div 2) * frame_len)
                  ELSE acc)
    ELSE Boundaries(silent, i + 1, in_silence, silence_start, acc)

\* len(audio)
AudioLen(e, t) == Len(e) * frame_len + t

\* segment_len = len(audio) // n_words; (i*segment_len, (i+1)*segment_len)
EqualDivision(len, n) ==
    [i \in 1..n |-> <<(i - 1) * (len \div n), i * (len \div n)>>]

\* (prev, b) for each boundary, then (prev, len(audio))
FromCuts(cuts, len) ==
    [i \in 1..(Len(cuts) + 1) |->
        <<IF i = 1 THEN 0 ELSE cuts[i - 1],
          IF i = Len(cuts) + 1 THEN len ELSE cuts[i]>>]

detect_word_boundaries(e, t, n) ==
    LET len == AudioLen(e, t)
        n_frames == len \div frame_len
        boundaries == Boundaries(IsSilent(e), 0, FALSE, 0, << >>)
    IN  IF n_frames = 0 THEN << <<0, len>> >>
        ELSE IF Len(boundaries) < n - 1 THEN EqualDivision(len, n)
        ELSE FromCuts(SubSeq(boundaries, 1, n - 1), len)

\* an audio of alternating runs of quiet and loud frames
RECURSIVE RunFrames(_, _, _)
RunFrames(runs, quiet_first, q) ==
    IF runs = << >> THEN << >>
    ELSE [i \in 1..Head(runs) |-> IF quiet_first THEN q ELSE LoudEnergy]
         \o RunFrames(Tail(runs), ~quiet_first, q)

RunSeqs == UNION {[1..k -> RunLens] : k \in 0..MaxRuns}

AudioInputs ==
    /\ \E runs \in RunSeqs, quiet_first \in BOOLEAN, q \in QuietLevels :
         energy = RunFrames(runs, quiet_first, q)
    /\ tail \in Tails
    /\ n_words \in 1..MaxWords
    /\ segments = << >>

\* one call of detect_word_boundaries
DetectWordBoundaries ==
    /\ segments = << >>
    /\ segments' = detect_word_boundaries(energy, tail, n_words)
    /\ UNCHANGED <<energy, tail, n_words>>
    /\ UNCHANGED <<qvars, claims, stream, pubvars, reply, skip_waiting,
                   dev_waiting, wvars, obsvars, extvars, subvars, srvvars,
                   poolvars, cachevars, filevars>>

\* ------------------------------------------------------------- SpeakDaemon
\* everything but the connections and the watchdog's inputs
srvrest == <<qvars, claims, stream, pubvars, reply, skip_waiting, dev_waiting,
             wvars, obsvars, extvars, subvars, poolvars, cachevars, filevars,
             audiovars>>

\* SubscriberManager.count
count == Len(subscribers)

is_active_ignores_pending == current # NoRequest

\* PlaybackQueue.is_active
is_active == current # NoRequest \/ queue # << >>

\* idle_watchdog: non_subscriber_conns
NonSubscriberConns == active_connections - count

\* the commands being handled whose response is not yet computed: every
\* connection carries one request
InFlight == (IF reply # NoReply THEN 1 ELSE 0) + skip_waiting

HandlerFree ==
    /\ ~exited
    /\ Cardinality({c \in Conns : conn[c] = "command"}) > InFlight

\* handle_client's finally block: the counter and last_activity, then the
\* writer, which is no longer a subscriber's, is closed and awaited
Finally(c) ==
    /\ active_connections' = active_connections - 1
    /\ last_activity' = mono
    /\ conn' = [conn EXCEPT ![c] = "close"]
    /\ UNCHANGED <<mono, exited>>

\* handle_client starts: the counter, last_activity, and the await of the
\* request's length prefix; connections are taken in order
Accept(c) ==
    /\ ~exited
    /\ conn[c] = "closed"
    /\ \A d \in Conns : d < c => conn[d] # "closed"
    /\ conn' = [conn EXCEPT ![c] = "read"]
    /\ active_connections' = active_connections + 1
    /\ last_activity' = mono
    /\ UNCHANGED <<mono, exited>>
    /\ UNCHANGED srvrest

\* readexactly raises IncompleteReadError: the client went away
ReadFails(c) ==
    /\ ~exited
    /\ conn[c] = "read"
    /\ Finally(c)
    /\ UNCHANGED srvrest

\* the request is a queue command or an enqueue: it is dispatched
DecodeCommand(c) ==
    /\ ~exited
    /\ conn[c] = "read"
    /\ conn' = [conn EXCEPT ![c] = "command"]
    /\ UNCHANGED <<active_connections, last_activity, mono, exited>>
    /\ UNCHANGED srvrest

\* the request is subscribe: the acknowledgement is sent and drained
DecodeSubscribe(c) ==
    /\ ~exited
    /\ c \in SubIds
    /\ conn[c] = "read"
    /\ conn' = [conn EXCEPT ![c] = "handshake"]
    /\ UNCHANGED <<active_connections, last_activity, mono, exited>>
    /\ UNCHANGED srvrest

\* the drain of the acknowledgement raises: the subscriber is never added
HandshakeFails(c) ==
    /\ ~exited
    /\ conn[c] = "handshake"
    /\ infos[c].spc = "none"
    /\ Finally(c)
    /\ UNCHANGED srvrest

\* the subscribe command goes on to add(); the handler then waits for the
\* subscriber's disconnect event
SrvSubscribe ==
    /\ ~exited
    /\ Subscribe
    /\ \A s \in SubIds : infos[s].spc = "none" /\ infos'[s].spc # "none"
                            => conn[s] = "handshake"

\* the disconnect event is set: the subscriber's handler returns
SubscriberLeaves(c) ==
    /\ ~exited
    /\ conn[c] = "handshake"
    /\ infos[c].disconnect
    /\ Finally(c)
    /\ UNCHANGED srvrest

SrvEnqueue == HandlerFree /\ Enqueue

SrvClear == HandlerFree /\ Clear

SrvSkipNothing == HandlerFree /\ SkipNothing

SrvSkipStart == HandlerFree /\ SkipStart

\* send_json, drain and return: the response is out and the handler ends
Respond(c) ==
    /\ ~exited
    /\ conn[c] = "command"
    /\ reply # NoReply
    /\ reply' = NoReply
    /\ Finally(c)
    /\ UNCHANGED <<qvars, claims, stream, pubvars, skip_waiting, dev_waiting,
                   wvars, obsvars, extvars, subvars, poolvars, cachevars,
                   filevars, audiovars>>

\* wait_closed returns
Closed(c) ==
    /\ ~exited
    /\ conn[c] = "close"
    /\ conn' = [conn EXCEPT ![c] = "done"]
    /\ UNCHANGED <<active_connections, last_activity, mono, exited>>
    /\ UNCHANGED srvrest

\* time passes
ClockTick ==
    /\ ~exited
    /\ mono + ClockStep <= MaxClock
    /\ mono' = mono + ClockStep
    /\ UNCHANGED <<conn, active_connections, last_activity, exited>>
    /\ UNCHANGED srvrest

\* idle_watchdog wakes from its sleep while the other tasks are suspended
\* and, finding the daemon idle, calls cleanup_and_exit()
Watchdog ==
    /\ ~exited
    /\ wpc \in AwaitLabels
    /\ NonSubscriberConns <= 0
    /\ mono - last_activity >= IDLE_TIMEOUT
    /\ ~is_active
    /\ exited' = TRUE
    /\ UNCHANGED <<conn, active_connections, last_activity, mono>>
    /\ UNCHANGED srvrest

\* ------------------------------------------------------------- the system
Next ==
    \/ Enqueue
    \/ SkipNothing
    \/ SkipStart
    \/ SkipResume
    \/ Clear
    \/ ReplayNothing
    \/ Replay
    \/ SendReply
    \/ PrefetchDone
    \/ WStart
    \/ WLoop
    \/ WGet
    \/ WSpacing
    \/ WResolve
    \/ WAnnounce
    \/ WAnnSynth
    \/ WAnnEnd
    \/ WPublishPlaying
    \/ WPrefetchWait
    \/ WRender
    \/ WRemaining
    \/ WClauseSynth
    \/ WClauseEnd
    \/ WEndTone
    \/ WItemDone
    \/ WExcept
    \/ WFinally
    \/ WKill
    \/ WpBegin
    \/ WOpen
    \/ WpLoop
    \/ WWriteOk
    \/ WWriteErr
    \/ WReopen

Spec == Init /\ [][Next]_vars

\* the steps of the worker task and of the prefetch task it starts
WorkerStep ==
    \/ PrefetchDone
    \/ WStart
    \/ WLoop
    \/ WGet
    \/ WSpacing
    \/ WResolve
    \/ WAnnounce
    \/ WAnnSynth
    \/ WAnnEnd
    \/ WPublishPlaying
    \/ WPrefetchWait
    \/ WRender
    \/ WRemaining
    \/ WClauseSynth
    \/ WClauseEnd
    \/ WEndTone
    \/ WItemDone
    \/ WExcept
    \/ WFinally
    \/ WKill
    \/ WpBegin
    \/ WOpen
    \/ WpLoop
    \/ WWriteOk
    \/ WWriteErr
    \/ WReopen

\* the event loop runs every task that is ready, and every executor call
\* returns: the worker goes on whenever it can, a response that is ready is
\* sent, and the kill a skip awaits comes back
Fairness ==
    /\ SF_vars(WorkerStep)
    /\ WF_vars(SendReply)
    /\ SF_vars(SkipResume)

SpecLive == Init /\ [][Next]_vars /\ Fairness

\* the same system with the set_device command
NextDevice ==
    \/ Next
    \/ SetDevice
    \/ SetDeviceResume

SpecDevice == Init /\ [][NextDevice]_vars

\* the same system with failing devices and failing synthesis
NextFaults ==
    \/ Next
    \/ WWriteFault
    \/ WOpenFault
    \/ WSynthFault
    \/ PrefetchFault

SpecFaults == Init /\ [][NextFaults]_vars

\* the daemon with subscribers to the live stream, playing what is enqueued
\* to the end (no skip, clear or replay command arrives)
NextFanout ==
    \/ Enqueue
    \/ SendReply
    \/ PrefetchDone
    \/ WStart
    \/ WLoop
    \/ WGet
    \/ WSpacing
    \/ WResolve
    \/ WAnnounce
    \/ WAnnSynth
    \/ WAnnEnd
    \/ WPublishPlaying
    \/ WPrefetchWait
    \/ WRender
    \/ WRemaining
    \/ WClauseSynth
    \/ WClauseEnd
    \/ WEndTone
    \/ WItemDone
    \/ WFinally
    \/ WKill
    \/ WpBegin
    \/ WOpen
    \/ WpLoop
    \/ WWriteOk
    \/ WReopen
    \/ WWriteFault
    \/ Subscribe
    \/ SenderGet
    \/ SenderDrained
    \/ SenderFail

SpecFanout == Init /\ [][NextFanout]_vars

\* the subscriber manager of an idle daemon, driven through its operations
NextSubscribers ==
    \/ WStart
    \/ WLoop
    \/ Subscribe
    \/ BroadcastAudio
    \/ BroadcastMetadata
    \/ SenderGet
    \/ SenderDrained
    \/ SenderFail
    \/ ShutdownStart
    \/ ShutdownNext
    \/ ShutdownDrained

SpecSubscribers == Init /\ [][NextSubscribers]_vars

\* the daemon behind its socket: every command arrives on a connection
NextServer ==
    \/ \E c \in Conns : Accept(c)
    \/ \E c \in Conns : ReadFails(c)
    \/ \E c \in Conns : DecodeCommand(c)
    \/ \E c \in Conns : DecodeSubscribe(c)
    \/ \E c \in Conns : HandshakeFails(c)
    \/ \E c \in Conns : SubscriberLeaves(c)
    \/ \E c \in Conns : Respond(c)
    \/ \E c \in Conns : Closed(c)
    \/ SrvSubscribe
    \/ SrvEnqueue
    \/ SrvClear
    \/ SrvSkipNothing
    \/ SrvSkipStart
    \/ ~exited /\ SkipResume
    \/ ~exited /\ SenderGet
    \/ ~exited /\ SenderDrained
    \/ ~exited /\ SenderFail
    \/ ~exited /\ WorkerStep
    \/ ClockTick
    \/ Watchdog

SpecServer == Init /\ [][NextServer]_vars

\* word boundary detection over the audios and word counts
InitAudio ==
    /\ DaemonInit
    /\ PoolInit({})
    /\ CacheInit
    /\ FileInit
    /\ NoStateFile
    /\ ServerInit
    /\ AudioInputs

NextAudio == DetectWordBoundaries

SpecAudio == InitAudio /\ [][NextAudio]_vars

\* the voice pool, driven through its operations
NextVoicePool ==
    \/ GetVoice
    \/ Lock
    \/ Unlock
    \/ SetWeight
    \/ ReleaseVoice

InitVoicePool ==
    /\ DaemonInit
    /\ \E config \in PoolConfigs : PoolInit(config)
    /\ CacheInit
    /\ FileInit
    /\ NoStateFile
    /\ ServerInit
    /\ NoAudio

SpecVoicePool == InitVoicePool /\ [][NextVoicePool]_vars

\* the audio cache and the synthesis engine, one call at a time
NextCache ==
    \/ PutClause
    \/ GetClause
    \/ EvictExpired
    \/ SynthesizeSentence
    \/ BgUpgrade
    \/ Tick

SpecCache == Init /\ [][NextCache]_vars

\* the threads of the cache, one file operation at a time
NextCacheThreads ==
    \/ PutWritePcm
    \/ PutReadMeta
    \/ PutWriteMeta
    \/ GetExists
    \/ GetStat
    \/ GetUnlinkPcm
    \/ GetUnlinkMeta
    \/ GetBumpRead
    \/ GetBumpWrite
    \/ GetReadBytes
    \/ EvictList
    \/ EvictIsFile
    \/ EvictStat
    \/ EvictUnlinkPcm
    \/ EvictUnlinkMeta
    \/ Tick

SpecCacheThreads == Init /\ [][NextCacheThreads]_vars

\* the state file: the daemon publishing and a reader reading
NextStateFile ==
    \/ PubCall
    \/ PubOpen
    \/ PubWrite
    \/ PubReplace
    \/ PubError
    \/ ReaderOpen
    \/ ReaderRead

InitStateFile ==
    /\ DaemonInit
    /\ PoolInit({})
    /\ CacheInit
    /\ FileInit
    /\ ServerInit
    /\ NoAudio

SpecStateFile == InitStateFile /\ [][NextStateFile]_vars


\* ------------------------------------------------------------- properties
\* every id a live request carries
IdsInUse ==
    {queue[k].id : k \in 1..Len(queue)} \cup {current.id, last_request.id}

\* C1: each item the worker completes has an id above that of the item
\* completed before it, so completions happen in enqueue order with pairwise
\* distinct, strictly increasing ids, whatever was skipped or cleared between
C1_EnqueueOrder ==
    [][total_completed' # total_completed
         => /\ total_completed' = total_completed + 1
            /\ last_request' = current
            /\ last_request'.id > last_request.id
            /\ \A k \in 1..Len(queue) : queue[k].id > current.id]_vars

C1_Witness ==
    /\ total_completed = 2
    /\ last_request.id = 2
    /\ total_skipped = 1

\* C2: a request put in the queue by enqueue or replay carries the id
\* counter's new value, which is above every id handed out before; a replayed
\* copy does not carry the id of the request it copies
C2_FreshIds ==
    [][Len(queue') > Len(queue)
         => /\ \A i \in IdsInUse : i <= id_counter
            /\ Last(queue').id = id_counter + 1
            /\ id_counter' = id_counter + 1
            /\ Last(queue').id # last_request.id]_vars

C2_Witness ==
    /\ queue # << >>
    /\ Last(queue).is_replay
    /\ Last(queue).id = 2
    /\ last_request.id = 1

\* C3: a skip that finds an item current sets the skip flag, adds exactly one
\* to total_skipped and submits a forced abort to the stream when there is
\* one, and the skip publishes "skipped" when the abort is through; a skip
\* that finds nothing current answers "nothing playing" and changes nothing
C3_Skip ==
    [][/\ total_skipped' # total_skipped
          => /\ current # NoRequest
             /\ skip_flag'
             /\ total_skipped' = total_skipped + 1
             /\ IF stream # "none"
                THEN stream' = "aborting" /\ skip_waiting' = skip_waiting + 1
                ELSE published'.event = "skipped" /\ reply'.op = "skip" /\ reply'.ok
       /\ skip_waiting' < skip_waiting
          => /\ published'.event = "skipped"
             /\ stream' = "none"
       /\ (reply'.op = "skip" /\ ~reply'.ok)
          => /\ current = NoRequest
             /\ UNCHANGED <<qvars, stream, published, skip_waiting, wvars>>]_vars

C3_Witness ==
    /\ current # NoRequest
    /\ skip_flag
    /\ total_skipped = 1
    /\ published.event = "skipped"
    /\ stream = "none"
    /\ lastdev = current.id

\* C4: once the skip flag is set for the current item, at most one further
\* chunk is written to the device for that item
C4_SkipLatency == afterSkip <= 1

\* C5: an item that was skipped while current ends as a completed item: it
\* is the last completed request and the last caller, and item_done was
\* published for it
C5_SkipCompletes ==
    (wpc = "finally" /\ skip_flag)
        => /\ last_request = current
           /\ last_caller = current.caller
           /\ items_played > 0

\* C6: clear empties the pending queue and answers with the number removed;
\* the current request, the skip flag, the id counter, the totals, the last
\* completed request, the stream and the worker's position stay as they are
C6_Clear ==
    [][reply'.op = "clear"
         => /\ queue' = << >>
            /\ reply'.n = Len(queue)
            /\ UNCHANGED <<current, skip_flag, id_counter, total_enqueued,
                           total_completed, total_skipped, last_request,
                           last_caller, items_played, stream, wvars>>]_vars

C6_Witness ==
    /\ reply.op = "clear"
    /\ reply.n >= 1
    /\ queue = << >>
    /\ current # NoRequest
    /\ wpc = "write"

\* C7: replay with a last completed request appends to the tail a copy of it
\* with the id counter's new value (above every id in use) and the replay
\* mark, and leaves the recorded request as it was; with none recorded it
\* answers "nothing to replay" and changes nothing
C7_Replay ==
    [][/\ (reply'.op = "replay" /\ reply'.ok)
          => /\ last_request # NoRequest
             /\ Len(queue') = Len(queue) + 1
             /\ SubSeq(queue', 1, Len(queue)) = queue
             /\ Last(queue').id = id_counter + 1
             /\ \A i \in IdsInUse : i < Last(queue').id
             /\ Last(queue').is_replay
             /\ Last(queue').caller = last_request.caller
             /\ Last(queue').text = last_request.text
             /\ last_request' = last_request
       /\ (reply'.op = "replay" /\ ~reply'.ok)
          => /\ last_request = NoRequest
             /\ UNCHANGED <<qvars, stream, published, skip_waiting, wvars>>]_vars

C7_Witness ==
    /\ reply.op = "replay"
    /\ reply.ok
    /\ Len(queue) = 1
    /\ queue[1].is_replay
    /\ ~last_request.is_replay


\* what the spacing rule writes before an item: nothing for the first item
\* of a batch, else the one sound
SpacingLog(sound) ==
    IF items_played = 0 THEN << >> ELSE << <<sound, 0, TRUE>> >>

NoLateSpacing ==
    \A k \in 2..Len(itemlog) : itemlog[k][1] \notin {"gap", "sep"}

\* C8 as stated: after C > 0 completed items the one spacing sound is the
\* caller gap whenever the item's caller differs from the last completed
\* item's caller, an empty caller on either side included
C8_SpacingAsStated ==
    /\ wpc = "resolve"
         => itemlog = SpacingLog(IF Caller # last_caller THEN "gap" ELSE "sep")
    /\ NoLateSpacing

\* C8, amended: the first item of a batch gets no spacing sound; a later
\* item gets exactly one, written in full before anything else of the item:
\* the caller gap when the item has a caller and it differs from the last
\* completed item's caller, the separator tone when the item has no caller
\* or the same caller
C8_Spacing ==
    /\ wpc = "resolve"
         => itemlog = SpacingLog(IF Caller = "" THEN "sep"
                                 ELSE IF Caller = last_caller THEN "sep"
                                 ELSE "gap")
    /\ NoLateSpacing

C8_Witness ==
    /\ wpc = "resolve"
    /\ items_played > 0
    /\ Caller = ""
    /\ last_caller = "alpha"
    /\ itemlog = << <<"sep", 0, TRUE>> >>

\* the place of a log entry in an item's pipeline
Rank(e) ==
    CASE e[1] \in {"gap", "sep"} -> 0
      [] e[1] = "start" -> 1
      [] e[1] = "ann" -> 2
      [] e[1] = "speech" -> 2 + e[2]
      [] OTHER -> 100

InLog(e) == \E k \in 1..Len(itemlog) : itemlog[k] = e

\* C9: an item with a caller that completes has written, in this order, its
\* start tone in full, the announcement if any in full, its speech clauses
\* in text order, and its end tone in full; speech is written only with the
\* prefetch finished and, for a caller, the start tone fully written; and
\* the device never goes back to an earlier item
C9_WriteOrder ==
    /\ [](/\ (wpc = "item_done" /\ Caller # "")
             => /\ \A k \in 1..(Len(itemlog) - 1) : Rank(itemlog[k]) < Rank(itemlog[k + 1])
                /\ \A k \in 1..Len(itemlog) : itemlog[k][1] # "speech" => itemlog[k][3]
                /\ InLog(<<"start", 0, TRUE>>)
                /\ Last(itemlog) = <<"end", 0, TRUE>>
          /\ wseg = "speech"
             => /\ prefetch = "done"
                /\ Caller # "" => InLog(<<"start", 0, TRUE>>))
    /\ [][lastdev' >= lastdev /\ (lastdev' # lastdev => lastdev' = current.id)]_vars

C9_Witness ==
    /\ wpc = "item_done"
    /\ itemlog = << <<"start", 0, TRUE>>, <<"ann", 0, TRUE>>, <<"speech", 1, TRUE>>,
                    <<"speech", 2, TRUE>>, <<"end", 0, TRUE>> >>

\* the worker's finally block runs
ItemEnds == current # NoRequest /\ current' = NoRequest

C11_FailureConfined ==
    /\ [](\A i \in failed : last_request.id # i)
    /\ [][/\ wpc = "except"
             => /\ wpc' = "finally"
                /\ failed' = failed \cup {current.id}
                /\ UNCHANGED <<queue, current, total_completed, last_request,
                               published>>
          /\ (wpc = "finally" /\ current.id \in failed)
             => /\ current' = NoRequest
                /\ wpc' \in {"loop", "kill"}
                /\ UNCHANGED <<queue, total_completed, last_request>>
          /\ total_completed' # total_completed
             => /\ current.id \notin failed
                /\ last_request' = current
          /\ (current' # current /\ current' # NoRequest)
             => /\ current = NoRequest
                /\ current' = Head(queue)
                /\ queue' = Tail(queue)]_vars

C11_Witness ==
    /\ faults = 1
    /\ failed = {1}
    /\ total_skipped = 0
    /\ total_completed = 1
    /\ last_request.id = 2

\* C12: the history gets an entry exactly when the worker dequeues a request
\* with non-empty text, the entry being that request's id at the end of the
\* history; so while such a request is current, from the moment of its
\* dequeue, it is the newest entry; entries are never removed or reordered,
\* and a request that is never dequeued (cleared) never gets one
C12_History ==
    /\ []((current # NoRequest /\ current.text # << >>)
             => (history # << >> /\ Last(history) = current.id))
    /\ []((current # NoRequest /\ current.text = << >>)
             => \A k \in 1..Len(history) : history[k] # current.id)
    /\ [][IF current' # current /\ current' # NoRequest
           THEN /\ current' = Head(queue)
                /\ itemlog' = << >>
                /\ history' = IF current'.text # << >>
                              THEN Append(history, current'.id)
                              ELSE history
           ELSE history' = history]_vars

C12_Witness ==
    /\ history = <<1>>
    /\ 1 \in failed
    /\ total_skipped = 1
    /\ id_counter = 2
    /\ reply.op = "clear"
    /\ reply.n = 1

\* the chunks written so far in a write_pcm call tile the input from offset
\* 0 in pieces of the given size, the last piece of the input being what is
\* left of it; and a call whose loop ends by exhaustion has written it all
ChunksOf(size) ==
    /\ \A k \in 1..Len(chunks) :
         /\ chunks[k][1] = (k - 1) * size
         /\ chunks[k][2] = Min(size, wlen - (k - 1) * size)
         /\ chunks[k][2] > 0
    /\ wpc = "wp_loop"
         => /\ woff = (IF chunks = << >> THEN 0
                       ELSE Last(chunks)[1] + Last(chunks)[2])
            /\ (woff >= wlen => woff = wlen)

\* C13 as stated: the chunks are 24000 bytes each (12000 samples)
C13_ChunksAsStated == ChunksOf(24000)

\* C13, amended: write_pcm submits the PCM as consecutive chunks of exactly
\* 12000 bytes (6000 16-bit samples, 0.25 s at 24000 Hz), only the final
\* chunk possibly shorter, and when the loop is not left by a skip the chunks
\* in write order make up the input
C13_Chunks ==
    /\ 12000 = 2 * 6000
    /\ 4 * 6000 = SAMPLE_RATE
    /\ ChunksOf(12000)

C13_Witness ==
    /\ wpc = "wp_loop"
    /\ wseg = "speech"
    /\ wlen = 20000
    /\ chunks = << <<0, 12000>>, <<12000, 8000>> >>

\* C14: a chunk is submitted at most twice; when its first write fails the
\* stream is closed and the handle dropped, the stream is reopened and the
\* same chunk submitted again; a second write that succeeds adds that chunk,
\* once, after the chunks before it; a second write that fails (or a reopen
\* that fails) leaves write_pcm with the error and writes nothing more
C14_RetryOnce ==
    /\ [](wtries <= 2)
    /\ [][/\ (wpc = "write" /\ wtries = 1 /\ wpc' # "write")
             => wpc' \in {"reopen", "wp_loop"}
          /\ (wpc = "write" /\ wpc' = "reopen")
             => /\ wtries = 1
                /\ stream' = "none"
                /\ UNCHANGED <<woff, wlen, wseg, chunks, lastdev>>
          /\ (wpc = "reopen" /\ wpc' # "reopen")
             => \/ /\ wpc' = "write"
                    /\ stream' = "active"
                    /\ wtries' = 2
                    /\ UNCHANGED <<woff, wlen, wseg, chunks, lastdev>>
                \/ /\ wpc' = "except"
                    /\ UNCHANGED <<chunks, lastdev>>
          /\ (wpc = "write" /\ wtries = 2 /\ wpc' # "write")
             => \/ /\ wpc' = "wp_loop"
                    /\ chunks' = Append(chunks, <<woff, Min(12000, wlen - woff)>>)
                    /\ woff' = woff + Min(12000, wlen - woff)
                \/ /\ wpc' = "except"
                    /\ UNCHANGED <<chunks, lastdev>>
          /\ wpc = "except"
             => /\ wpc' = "finally"
                /\ lastdev' = lastdev]_vars

C14_Witness ==
    /\ faults = 1
    /\ failed = {}
    /\ total_skipped = 0
    /\ current.id = 1
    /\ wpc = "item_done"
    /\ itemlog = << <<"start", 0, TRUE>>, <<"ann", 0, TRUE>>, <<"speech", 1, TRUE>>,
                    <<"speech", 2, TRUE>>, <<"end", 0, TRUE>> >>

\* a kill() returns to its caller
KillReturns ==
    \/ skip_waiting' < skip_waiting
    \/ dev_waiting' < dev_waiting
    \/ (wpc = "kill" /\ wpc' # "kill")

\* a kill() is called
KillCalled ==
    \/ total_skipped' # total_skipped
    \/ (ItemEnds /\ queue = << >>)

\* C15: whenever a kill returns the stream handle is absent and the caller
\* goes on (skip publishes skipped, the worker publishes idle), with force
\* (skip) and without (the worker's drain), also when the handle was taken
\* away while the kill was suspended so that its close raises; and a kill
\* called with the handle absent returns at once, submits nothing to the
\* device and leaves the stream as it is
C15_KillIdempotent ==
    [][/\ KillReturns
          => /\ stream' = "none"
             /\ published'.event \in {"skipped", "idle"}
       /\ (KillCalled /\ stream = "none")
          => /\ stream' = "none"
             /\ UNCHANGED <<skip_waiting, dev_waiting, wdist>>
             /\ wpc' # "kill"
             /\ published'.event \in {"skipped", "idle"}
       /\ (KillCalled /\ stream # "none")
          => /\ stream' \in {"aborting", "stopping"}
             /\ (wpc' = "kill" \/ skip_waiting' = skip_waiting + 1)]_vars

C15_Witness ==
    /\ wpc = "kill"
    /\ stream = "none"
    /\ skip_waiting = 0
    /\ total_skipped = 1

\* what a subscriber was sent and what is still queued for it
Frames(info) == info.sink \o info.queue

\* the payloads of the AUDIO frames of a sequence of frames
AudioPayloads(frames) ==
    LET audio == SelectSeq(frames, LAMBDA f : f.type = "audio")
    IN  [k \in 1..Len(audio) |-> audio[k].payload]

\* the step in which a chunk write to the device returns without raising
WriteSucceeds == wpc = "write" /\ wpc' = "wp_loop"

\* C16: the step in which a chunk write succeeds (first try or retry) hands
\* exactly that chunk, once, as the newest AUDIO frame to every subscriber;
\* no other step (a failed write among them) adds an AUDIO frame for a
\* connected subscriber; so for a
\* subscriber that joined before the item started and lost no frame, the
\* AUDIO payloads sent and queued for the item are the chunks written to the
\* device for it, in write order
C16_BroadcastOnce ==
    /\ [](\A s \in SubIds :
            (Subscribed(s) /\ infos[s].dropped_frames = 0
                           /\ infos[s].joined < current.id)
            => SelectSeq(AudioPayloads(Frames(infos[s])),
                         LAMBDA pl : pl[1] = current.id) = devlog)
    /\ [][/\ WriteSucceeds
             => \A s \in SubIds : Subscribed(s)
                  => /\ infos'[s].offered = infos[s].offered + 1
                     /\ infos'[s].queue # << >>
                     /\ infos'[s].queue[Len(infos'[s].queue)]
                          = encode_broadcast_frame("audio", Pcm(woff, ChunkLen))
                     /\ AudioPayloads(Frames(infos'[s]))
                          = Append(AudioPayloads(Frames(infos[s])),
                                   Pcm(woff, ChunkLen))
          /\ ~WriteSucceeds
             => \A s \in SubIds :
                   \/ AudioPayloads(Frames(infos'[s]))
                        \in {AudioPayloads(Frames(infos[s])), << >>}
                   \/ infos'[s].disconnect]_vars

C16_Witness ==
    /\ faults = 1
    /\ failed = {}
    /\ Len(devlog) >= 3
    /\ \A s \in SubIds :
         /\ Subscribed(s)
         /\ infos[s].joined < current.id
         /\ AudioPayloads(Frames(infos[s])) = devlog
    /\ AudioPayloads(infos[2].sink) = SubSeq(devlog, 1, 2)

\* the step broadcast a frame to subscriber s
Offered(s) == Subscribed(s) /\ infos'[s].offered = infos[s].offered + 1

\* C17: a subscriber's queue never holds more than 64 frames; a frame
\* broadcast to a subscriber with 64 queued frames discards exactly the
\* oldest one, adds one to dropped_frames and becomes the newest entry; a
\* frame broadcast to a subscriber with fewer is appended and leaves
\* dropped_frames as it was; no other step changes dropped_frames
C17_DropOldest ==
    /\ [](\A s \in SubIds : Len(infos[s].queue) <= 64)
    /\ [][\A s \in SubIds :
            LET q == infos[s].queue
                q2 == infos'[s].queue
            IN  /\ (Offered(s) /\ Len(q) = 64)
                   => /\ Len(q2) = 64
                      /\ SubSeq(q2, 1, 63) = Tail(q)
                      /\ q2[64].payload[1] = nframes'
                      /\ infos'[s].dropped_frames = infos[s].dropped_frames + 1
                /\ (Offered(s) /\ Len(q) < 64)
                   => /\ Len(q2) = Len(q) + 1
                      /\ SubSeq(q2, 1, Len(q)) = q
                      /\ q2[Len(q2)].payload[1] = nframes'
                      /\ infos'[s].dropped_frames = infos[s].dropped_frames
                /\ (Subscribed(s) /\ ~Offered(s))
                   => infos'[s].dropped_frames = infos[s].dropped_frames]_vars

C17_Witness ==
    /\ nframes = 66
    /\ \A s \in SubIds :
         /\ Subscribed(s)
         /\ Len(infos[s].queue) = 64
         /\ infos[s].queue[64].payload[1] = 66
    /\ infos[1].dropped_frames = 2
    /\ infos[1].sink = << >>
    /\ infos[1].queue[1].payload[1] = 3
    /\ infos[2].dropped_frames = 1
    /\ Len(infos[2].sink) = 1

\* a step of the subscription handler or of a sender task
SubscriberStep ==
    \/ subscribers' # subscribers
    \/ \E s \in SubIds : \/ infos'[s].sink # infos[s].sink
                         \/ infos'[s].spc # infos[s].spc

\* the worker's steps that broadcast are taken as soon as the worker runs
BroadcastReturns ==
    /\ (WorkerTurn /\ wpc = "start") => ENABLED WStart
    /\ (WorkerTurn /\ wpc = "write") => ENABLED WWriteOk
    /\ (WorkerTurn /\ wpc = "publish_playing") => ENABLED WPublishPlaying
    /\ (WorkerTurn /\ wpc = "item_done") => ENABLED WItemDone
    /\ (WorkerTurn /\ wpc = "finally") => ENABLED WFinally
    /\ (WorkerTurn /\ wpc = "kill") => ENABLED WKill

SenderStops(s) == infos[s].spc \in {"get", "drain"} /\ infos'[s].spc = "done"

\* C19: the step in which a write or drain to the sink of s fails ends the
\* sender of s, takes s (and nobody else) out of the subscribers, sets its
\* disconnect event and leaves the other subscribers and the playback state
\* as they are; from then on nothing is queued for s or written to it, while
\* every chunk written still goes to each remaining subscriber and every
\* published document to each remaining one that asked for metadata
C19_SinkFailure ==
    /\ [](\A s \in SubIds :
            infos[s].disconnect => (infos[s].spc = "done" /\ ~Subscribed(s)))
    /\ [][\A s \in SubIds :
            /\ SenderStops(s)
               => /\ infos'[s].disconnect
                  /\ subscribers' = SelectSeq(subscribers, LAMBDA x : x # s)
                  /\ \A o \in SubIds \ {s} : infos'[o] = infos[o]
                  /\ UNCHANGED playvars
            /\ infos[s].spc = "done" => infos'[s] = infos[s]
            /\ (Subscribed(s) /\ WriteSucceeds)
               => infos'[s].offered = infos[s].offered + 1
            /\ (Subscribed(s) /\ infos[s].include_metadata
                              /\ published' # published)
               => infos'[s].offered = infos[s].offered + 1]_vars

C19_Witness ==
    /\ wpc = "item_done"
    /\ itemlog = << <<"start", 0, TRUE>>, <<"ann", 0, TRUE>>, <<"speech", 1, TRUE>>,
                    <<"speech", 2, TRUE>>, <<"end", 0, TRUE>> >>
    /\ infos[1].disconnect
    /\ infos[1].joined = current.id
    /\ Len(infos[1].sink) = 1
    /\ subscribers = <<2>>
    /\ infos[2].joined = 0
    /\ AudioPayloads(Frames(infos[2])) = devlog
    /\ infos[2].offered > infos[1].offered + 2

\* C20: when shutdown() returns no subscriber is left, and in every sink
\* the terminator, once written, is the last frame: no AUDIO or METADATA
\* frame follows it, whatever was queued and wherever the sender was
C20_TerminatorLast ==
    /\ [](\A s \in SubIds : \A k \in 1..Len(infos[s].sink) :
            infos[s].sink[k] = terminator => k = Len(infos[s].sink))
    /\ [][(shpc # "done" /\ shpc' = "done") => subscribers' = << >>]_vars

\* C21 as stated: every get_voice for a key returns the voice of the first
\* get_voice for that key, whatever lock, unlock, set_weight and
\* release_voice calls come in between
C21_AlwaysFirstVoice ==
    pool_reply.op = "get_voice" => pool_reply.voice = first_voice[pool_reply.key]

\* C21: a claim changes only by a release_voice of its voice, which drops
\* it; a get_voice for a key that holds a claim returns the claim's voice;
\* so as long as no release_voice was called every get_voice for a key
\* returns the voice of its first get_voice
C21_SameVoice ==
    /\ []("release_voice" \notin {pool_log[k] : k \in 1..Len(pool_log)}
            => /\ C21_AlwaysFirstVoice
               /\ \A n \in PoolKeys :
                    first_voice[n] # "" => pool_claims[n][1] = first_voice[n])
    /\ [][\A n \in PoolKeys :
            pool_claims[n] # NoClaim
            => /\ \/ pool_claims'[n] = pool_claims[n]
                  \/ /\ pool_reply'.op = "release_voice"
                     /\ pool_reply'.voice = pool_claims[n][1]
                     /\ pool_claims'[n] = NoClaim
               /\ (pool_reply'.op = "get_voice" /\ pool_reply'.key = n
                                                /\ pool_log' = pool_log)
                  => /\ pool_reply'.voice = pool_claims[n][1]
                     /\ pool_reply'.gain = pool_claims[n][2]]_vars

C21_Witness ==
    /\ pool_log = <<"set_weight", "lock">>
    /\ <<"alpha", "af_alloy", 5>> \in locks
    /\ pool_reply = [op |-> "get_voice", key |-> 1, voice |-> "af_aoede",
                     gain |-> 10, new |-> FALSE]
    /\ first_voice[1] = "af_aoede"
    /\ first_voice[3] = "af_alloy"

\* the kinds of the pool commands made so far
PoolOpsDone == {pool_log[k] : k \in 1..Len(pool_log)}

\* C22: in a pool that started without locks and saw no lock and no
\* release_voice, the first 27 = min(28, |ENGLISH_VOICES|) keys got pairwise
\* distinct voices; and a get_voice for a key that holds a claim returns the
\* claim's voice and gain with is_new_claim false and leaves the claims and
\* the round-robin counter as they are
C22_DistinctVoices ==
    /\ 27 = Len(ENGLISH_VOICES)
    /\ []((locks = {} /\ PoolOpsDone \cap {"lock", "release_voice"} = {})
            => \A i, j \in 1..27 :
                 (i < j /\ first_voice[j] # "") => first_voice[i] # first_voice[j])
    /\ [][\A n \in PoolKeys :
            (pool_claims[n] # NoClaim /\ pool_reply'.op = "get_voice"
                                      /\ pool_reply'.key = n
                                      /\ pool_log' = pool_log)
            => /\ pool_reply' = [op |-> "get_voice", key |-> n,
                                 voice |-> pool_claims[n][1],
                                 gain |-> pool_claims[n][2], new |-> FALSE]
               /\ UNCHANGED <<pool_claims, next_idx>>]_vars

C22_Witness ==
    /\ locks = {}
    /\ pool_log = <<"set_weight", "set_weight">>
    /\ next_idx = 28
    /\ \A i, j \in 1..27 : i < j => first_voice[i] # first_voice[j]
    /\ \E i \in 1..27 : first_voice[i] = first_voice[28]
    /\ pool_reply = [op |-> "get_voice", key |-> 2, voice |-> first_voice[2],
                     gain |-> 10, new |-> FALSE]

\* the step in which get_voice takes a voice from the pool
NewPoolClaim == pool_log' = pool_log /\ next_idx' = next_idx + 1

\* C23: get_voice for a caller without lock and claim always returns a
\* result; the voice it returns is locked to nobody, and it is an unclaimed
\* one whenever some voice is neither locked nor claimed
C23_AlwaysAVoice ==
    /\ [](pool_reply.op # "ZeroDivisionError")
    /\ [][NewPoolClaim
            => /\ pool_reply'.new
               /\ pool_reply'.voice \in Voices \ locked_voices
               /\ (Voices \ (locked_voices \cup claimed_voices) # {})
                  => pool_reply'.voice \notin claimed_voices]_vars

\* C24: the voice of a new pool claim has the least weight among the
\* candidates: no candidate of strictly lower weight is passed over
C24_LowestWeightFirst ==
    [][NewPoolClaim
        => \A k \in 1..Len(Available) :
              weights[pool_reply'.voice] <= weights[Available[k]]]_vars

\* a get_clause call returns in this step
GetClauseReturns == cache_ops' = cache_ops + 1 /\ cache_reply'.op = "get_clause"

\* what get_clause owes to a put made at lp.time with lp.pcm
RoundTrip(lp, fp) ==
    IF now - lp.time <= TTL
    THEN cache_reply'.hit /\ cache_reply'.pcm = lp.pcm
    ELSE /\ ~cache_reply'.hit
         /\ clause_pcm'[fp] = NoFile
         /\ clause_meta'[fp] = NoMeta

\* C25 as stated: get_clause returns the PCM of the last put_clause made with
\* the same text, voice and speed while that put is within the TTL, and after
\* the TTL it misses and leaves neither file
C25_RoundTripByKey ==
    [][GetClauseReturns /\ put_by_key[cache_reply'.key] # NoPut
         => RoundTrip(put_by_key[cache_reply'.key], ClauseFp(cache_reply'.key))]_vars

\* C25: get_clause returns the PCM of the last put_clause made under the same
\* fingerprint while that put is within the TTL, whatever gets, puts under
\* other fingerprints, word-cache calls and eviction sweeps came between; after
\* the TTL it misses and leaves neither the PCM file nor the metadata file
C25_RoundTrip ==
    [][GetClauseReturns /\ last_put[ClauseFp(cache_reply'.key)] # NoPut
         => RoundTrip(last_put[ClauseFp(cache_reply'.key)], ClauseFp(cache_reply'.key))]_vars

\* a get_clause hit on the last tick of the TTL, after other calls
C25_Witness ==
    /\ cache_reply.op = "get_clause"
    /\ cache_reply.hit
    /\ cache_reply.pcm = last_put[ClauseFp(cache_reply.key)].pcm
    /\ now - last_put[ClauseFp(cache_reply.key)].time = TTL
    /\ cache_ops >= 3

\* no thread is inside a cache operation
CacheQuiet == \A th \in Threads : thr[th].pc = "idle"

\* C26: whenever no cache operation is in progress, every fingerprint has
\* both its PCM file and its metadata file or neither
C26_PairOrNone ==
    CacheQuiet =>
        \A fp \in ClauseFps : (clause_pcm[fp] = NoFile) <=> (clause_meta[fp] = NoMeta)

\* a synthesize_sentence call returns in this step
SentenceReturns ==
    cache_ops' = cache_ops + 1 /\ cache_reply'.op = "synthesize_sentence"

\* the clause cache holds a live entry for request k
ClauseLive(k) ==
    clause_pcm[ClauseFp(k)] # NoFile /\ now - clause_pcm[ClauseFp(k)].mtime <= TTL

\* the word cache holds a live entry for every word of request k
WordsLive(k) ==
    \A i \in 1..Len(ClauseKeys[k].text) :
        word_pcm[WordFp(k, i)] # NoFile /\ now - word_pcm[WordFp(k, i)].mtime <= TTL

\* the audio put together from the words of request k as they are cached
FromWords(k) ==
    assemble_word_audio([i \in 1..Len(ClauseKeys[k].text) |-> word_pcm[WordFp(k, i)].bytes])

\* how synthesize_sentence was served
Served(pcm, up, tts) ==
    /\ cache_reply'.pcm = pcm
    /\ cache_reply'.needs_upgrade = up
    /\ tts_calls' = tts_calls + tts

ClauseCached(clause) ==
    \E voice \in Voices :
        LET fp == Fingerprint(clause, voice, 1000)
        IN  fp \in DOMAIN clause_pcm /\ clause_pcm[fp] # NoFile

\* C28: once the queue worker has played an utterance to completion, with no
\* skip and no failure, each of its clauses is in the clause cache
C28_PlayedIsCached ==
    total_completed > 0 /\ total_skipped = 0 /\ faults = 0 /\ failed = {}
        => \A i \in 1..Len(split_clauses(last_request.text)) :
               ClauseCached(split_clauses(last_request.text)[i])

\* C29: what a reader of the state file reads is a complete document, the one
\* that was in place when the reader opened the file, whatever publications
\* go on meanwhile; the file at STATE_PATH is a complete document at any time
C29_NoPartialDocument ==
    /\ reader.observed # NoContent =>
          Complete(reader.observed) /\ reader.observed = reader.expect
    /\ reader.pc = "read" => Complete(fs_inodes[reader.fd])
    /\ fs_paths[StatePath] # NoInode => Complete(fs_inodes[fs_paths[StatePath]])

\* a reader has read the first document while the second is half written
C29_Witness ==
    /\ reader.observed = Document(1)
    /\ pub.pc = "write"
    /\ pub.n = 2
    /\ Len(fs_inodes[pub.fd]) = 2

\* an enqueue, skip, clear or replay command returns its result, or the
\* worker completes an item
OperationEnds ==
    \/ reply = NoReply /\ reply'.ok /\ reply'.op \in {"enqueue", "skip", "clear", "replay"}
    \/ total_completed' = total_completed + 1

\* C30: when an operation that changes the pending queue or the current
\* request has finished, the last published document shows the actual number
\* of pending requests and the actual current request
C30_PublishedIsActual ==
    [][OperationEnds =>
          /\ published'.pending = Len(queue')
          /\ published'.playing = current'.id]_vars

\* C34: a skip called while an item is current returns an ok result; it never
\* fails on reading the current request after the worker has reset it
C34_SkipNeverCrashes == reply.op # "skip_crash"

\* C35: the chunk loop of write_pcm never finds the stream handle absent when
\* it is about to write the next chunk
C35_NoAbsentHandleWrite == [][~(wpc = "wp_loop" /\ wpc' = "except")]_vars

\* the kill awaited by a skip resumes while a later item is current: the skip
\* flag it set has been reset by the dequeue of that item
SkipKillResumesLate ==
    skip_waiting' < skip_waiting /\ current # NoRequest /\ ~skip_flag

\* C36: the skip flag is false when a newly dequeued item starts, and the
\* abort of a skip leaves the stream of a later item as it is
C36_SkipHitsOnlyItsItem ==
    [][/\ (current' # current /\ current' # NoRequest) => ~skip_flag'
       /\ SkipKillResumesLate => stream' = stream]_vars

\* C37: a published idle document shows nothing playing and nothing pending
C37_IdleIsIdle ==
    published.event = "idle" => published.playing = 0 /\ published.pending = 0

\* the requests in the daemon: pending and current
InQueue == Len(queue) + (IF current # NoRequest THEN 1 ELSE 0)

\* C38: whenever the worker is suspended, the completed requests and the
\* requests pending or current are not more than total_enqueued
C38_TotalsConserved ==
    wpc \in AwaitLabels => total_completed + InQueue <= total_enqueued

\* the subscribe command adds subscriber s in this step
Subscribes(s) == infos[s].spc = "none" /\ infos'[s].spc = "get"

\* C33: a client that subscribes with metadata while an item is current gets
\* the item_start frame of that item, and the subscribers already there get
\* nothing because of it
C33_NewSubscriberToldOnly ==
    [][\A s \in SubIds :
          Subscribes(s) /\ current # NoRequest =>
              /\ infos'[s].include_metadata =>
                    infos'[s].queue = <<encode_broadcast_frame("metadata",
                                            <<current.id, "item_start">>)>>
              /\ \A o \in SubIds \ {s} : infos'[o] = infos[o]]_vars

\* a is b with some elements left out
RECURSIVE IsSubseq(_, _)
IsSubseq(a, b) ==
    IF a = << >> THEN TRUE
    ELSE IF b = << >> THEN FALSE
    ELSE IF Head(a) = Head(b) THEN IsSubseq(Tail(a), Tail(b))
    ELSE IsSubseq(a, Tail(b))

\* the frames broadcast to the subscriber that have left its queue
Passed(info) == SubSeq(info.heard, 1, Len(info.heard) - Len(info.queue))

\* C39: for each subscriber, the frames still queued are the last frames
\* broadcast to it, the frames written to its sink are among the earlier ones,
\* in broadcast order and each once; and the frames broadcast to it are as
\* many as the frames written, dropped, queued and held by the sender
C39_FramesConserved ==
    \A s \in SubIds :
        /\ Len(infos[s].heard) = infos[s].offered
        /\ Len(infos[s].queue) <= Len(infos[s].heard)
        /\ infos[s].queue = SubSeq(infos[s].heard,
                                   Len(infos[s].heard) - Len(infos[s].queue) + 1,
                                   Len(infos[s].heard))
        /\ IsSubseq(Written(infos[s]), Passed(infos[s]))
        /\ infos[s].offered = Len(Written(infos[s])) + infos[s].dropped_frames
                                + Len(infos[s].queue) + infos[s].held

\* a subscriber with frames written, a frame dropped and frames queued
C39_Witness ==
    \E s \in SubIds :
        /\ infos[s].dropped_frames > 0
        /\ Len(Written(infos[s])) > 0
        /\ infos[s].queue # << >>

\* the request with this id is pending
Queued(i) == \E k \in 1..Len(queue) : queue[k].id = i

\* nothing current, nothing pending, the output stream closed
AtRest == current = NoRequest /\ queue = << >> /\ stream = "none"

\* C40: every pending request leaves the queue, dequeued by the worker or
\* removed by clear, and in the end the worker is at rest for good
C40_Progress ==
    /\ \A i \in 1..MaxId : Queued(i) ~> ~Queued(i)
    /\ <>[]AtRest

\* the worker at rest after a skip, with every id handed out
C40_Witness ==
    /\ AtRest
    /\ wpc = "get"
    /\ total_skipped = MaxSkips
    /\ id_counter = MaxId
    /\ total_completed > 0

\* a connection whose request is being read or served, or whose subscription
\* is not yet made
Handled(c) ==
    \/ conn[c] \in {"read", "command"}
    \/ conn[c] = "handshake" /\ infos[c].spc = "none"

\* C31: when the idle watchdog ends the process nothing is current, nothing
\* is pending and no connection other than a subscriber's is being handled
C31_NoShutdownWhileBusy ==
    [][exited' /\ ~exited =>
          /\ current = NoRequest
          /\ queue = << >>
          /\ \A c \in Conns : ~Handled(c)]_vars

\* the watchdog ended the process after an item was played, with a
\* subscriber connected
C31_Witness ==
    /\ exited
    /\ total_completed > 0
    /\ \E s \in SubIds : conn[s] = "handshake" /\ infos[s].spc = "get"

\* C32: the call returns exactly n_words segments, each of non-negative
\* length, the first from 0, each from where the one before ends, the last
\* to len(audio)
C32_SegmentsCover ==
    segments # << >> =>
        /\ Len(segments) = n_words
        /\ segments[1][1] = 0
        /\ segments[Len(segments)][2] = AudioLen(energy, tail)
        /\ \A i \in 1..Len(segments) : segments[i][1] <= segments[i][2]
        /\ \A i \in 1..(Len(segments) - 1) : segments[i][2] = segments[i + 1][1]

====
